---- MODULE Spec2Model ----
(***************************************************************************)
(* DTing sampling engine: the DataCollector of dting/core/collector.py.   *)
(*                                                                         *)
(* One collector object is modelled together with the threads that touch  *)
(* it: caller threads invoking start_continuous_collection and            *)
(* stop_continuous_collection, and the threading.Thread objects running   *)
(* _collection_loop.  The collector has no lock, so every read or write   *)
(* of one of its attributes is a separate step.                           *)
(***************************************************************************)
EXTENDS Integers, Sequences, FiniteSets, TLC

\* ---------------------------------------------------------------- bounds
MaxThreads == 3      \* Thread objects created over the life of the collector
MaxSamples == 4      \* PerformanceData objects assembled
RaceSamples == 2     \* the same, under the concurrent control plane
MaxCallbacks == 2    \* entries of the callbacks list
MaxClock == 2        \* readings of time.time() during the extractions
MaxExtractions == 3  \* extractions made on one platform collector

Threads == 1..MaxThreads
Callers == {"a", "b"}                \* control-plane threads (API handlers)
Control == "a"                       \* the caller of the sequential control plane
Subscribers == {"s1", "s2"}          \* callables passed to add_callback
RaceSubscribers == {"s1"}
\* (interval, duration) arguments of start; duration 0 is None
StartArgs == {<<1, 0>>, <<2, 3>>}
RaceArgs == {<<1, 0>>, <<1, 1>>}
Capacities == {1, 2}                 \* values of data.buffer_size

VARIABLES
    is_collecting,      \* DataCollector.is_collecting
    collection_thread,  \* DataCollector.collection_thread (0 is None)
    data_buffer,        \* DataCollector.data_buffer, a sequence of sample ids
    max_buffer_size,    \* DataCollector.max_buffer_size
    callbacks,          \* DataCollector.callbacks, in registration order
    thr,                \* the Thread objects and the frame of their loop
    caller,             \* the control-plane threads and their position
    nextId,             \* number of PerformanceData objects assembled
    appendCount         \* history: how many times each sample was appended (up to 2)

\* The platform collector behind the DataCollector (AndroidCollector or
\* IOSCollector) and the device it reads.
VARIABLES
    platform,           \* "android" or "ios": the class of DataCollector.collector
    package_name,       \* the collector's package_name ("" when not bound)
    pid,                \* AndroidCollector.pid (0 is None)
    last_cpu_data,      \* AndroidCollector.last_cpu_data (<<>> is None)
    last_network_data,  \* last_network_data of the collector (<<>> is None)
    clock,              \* time.time()
    returned            \* what the last extraction read and what it returned

extractor_vars == <<platform, package_name, pid, last_cpu_data, last_network_data,
                    clock, returned>>

\* The AppPerformanceMonitor that owns the DataCollector.
VARIABLES
    performance_data,   \* AppPerformanceMonitor.performance_data
    alerts,             \* AppPerformanceMonitor.alerts
    evaluated           \* history: the values handed to _check_alert

monitor_vars == <<performance_data, alerts, evaluated>>

\* A process that holds two DataCollector instances.
VARIABLES
    pair                \* the two instances, the objects they refer to, the heap

\* The monitor's run and the registry of the process.
VARIABLES
    apm,                \* AppPerformanceMonitor: is_monitoring, duration, and
                        \* the position of the thread inside collect_all
    monitors            \* PerformanceService.monitors and the calls under way

service_vars == <<apm, monitors>>

\* What no method of the DataCollector's scheduler touches.
outside_vars == <<extractor_vars, monitor_vars, pair, service_vars>>

vars == <<is_collecting, collection_thread, data_buffer, max_buffer_size,
          callbacks, thr, caller, nextId, appendCount, outside_vars>>

Min(a, b) == IF a < b THEN a ELSE b
Max(a, b) == IF a > b THEN a ELSE b

\* The last n elements of a sequence.
LastN(seq, n) == SubSeq(seq, Len(seq) - Min(n, Len(seq)) + 1, Len(seq))

\* ceil(d / i) for positive i
CeilDiv(d, i) == (d + i - 1) \div i

\* A Thread object that does not exist yet.
\* elapsed is time.time() - start_time, kept up to duration (all the loop
\* compares it with); remaining is what is left of the current time.sleep.
NoThread == [pc |-> "unborn", interval |-> 0, duration |-> 0, elapsed |-> 0,
             data |-> 0, idx |-> 0, called |-> <<>>, remaining |-> 0, count |-> 0]

\* A Thread whose run() has returned.
DoneThread == [NoThread EXCEPT !.pc = "done"]

\* A caller thread outside any call.
\* stopped is history of the stop() the caller is in: "idle" when it was
\* called with the flag clear, "during_start" when it was called with the flag
\* set and a start call under way, "clean" when it was called with the flag
\* set and no start call has overlapped it so far, "overlapped" when a start
\* call has begun since.
CallerIdle == [pc |-> "idle", interval |-> 0, duration |-> 0, target |-> 0,
               stopped |-> ""]

\* A caller thread whose call ended in an exception (RuntimeError).
CallerRaised == [CallerIdle EXCEPT !.pc = "raised"]

\* pcs of a Thread whose run() is executing _collection_loop
LoopPcs == {"started", "while", "collect", "assembling", "append", "evict", "pop",
            "dispatch", "sleeping", "exit"}

Alive(t) == thr[t].pc \in LoopPcs

InStart(c) == caller[c].pc \in {"start_set", "start_create", "start_start"}
InStop(c) == caller[c].pc \in {"stop_join", "stop_wait"}

\* Two DataCollector instances of one process, for distinct device/package
\* pairs.
Collectors == {1, 2}

\* The attributes of a DataCollector that refer to a mutable object: the two
\* lists and the platform collector with its baselines.
Fields == {"data_buffer", "callbacks", "collector"}

\* Mutant of NewObject: the object is made once, with the class, and every
\* instance refers to it.
SharedObject(c, field) == <<1, field>>

\* The object that `[]` or `AndroidCollector(device, package_name)` evaluates
\* to in the __init__ of collector c: a new object at every call.
NewObject(c, field) == <<c, field>>

\* The new object's content: an empty list, or a platform collector as its
\* __init__ leaves it.
EmptyObject(field) ==
    IF field = "collector"
    THEN [pid |-> 0, last_cpu_data |-> <<>>, last_network_data |-> <<>>]
    ELSE <<>>

\* The process after both constructors; made counts the samples assembled
\* by each collector and last is the collector of the latest operation.
InitTwo ==
    [is_collecting |-> [c \in Collectors |-> FALSE],
     made |-> [c \in Collectors |-> 0],
     ref |-> [c \in Collectors |-> [f \in Fields |-> NewObject(c, f)]],
     heap |-> [o \in Collectors \X Fields |-> EmptyObject(o[2])],
     last |-> 0]

\* AppPerformanceMonitor.__init__ with duration d: `self.is_monitoring = False`;
\* no collect_all is under way.
NewMonitor(d) == [is_monitoring |-> FALSE, duration |-> d, pc |-> "idle", remaining |-> 0]

\* A caller that is inside no call of the registry.
NoCall == [op |-> "", id |-> "", pc |-> "idle", obj |-> 0, result |-> FALSE,
           n |-> 0, reuse |-> FALSE]

\* PerformanceService.__init__: `self.monitors = {}`, `self.is_running =
\* False`; no call is under way.  created counts the monitors constructed,
\* calls the calls made, released the ids whose stop_monitor returned True.
NoMonitors ==
    [registered |-> <<>>, is_running |-> FALSE, created |-> 0, calls |-> 0,
     released |-> {}, call |-> [c \in Callers |-> NoCall]]

\* A process with an unbounded monitor and an empty registry.
InitService ==
    /\ apm = NewMonitor(0)
    /\ monitors = NoMonitors

\* DataCollector.__init__
InitDataCollector ==
    /\ is_collecting = FALSE
    /\ collection_thread = 0
    /\ data_buffer = <<>>
    /\ max_buffer_size \in Capacities
    /\ callbacks = <<>>
    /\ thr = [t \in Threads |-> NoThread]
    /\ caller = [c \in Callers |-> CallerIdle]
    /\ nextId = 0
    /\ appendCount = [k \in 1..MaxSamples |-> 0]

\* AndroidCollector.__init__ / IOSCollector.__init__ for a collector of
\* platform p bound to package n; nothing has been extracted yet.
InitExtractor(p, n) ==
    /\ platform = p
    /\ package_name = n
    /\ pid = 0
    /\ last_cpu_data = <<>>
    /\ last_network_data = <<>>
    /\ clock = 0
    /\ returned = <<>>

\* AppPerformanceMonitor.__init__
InitMonitor ==
    /\ performance_data = <<>>
    /\ alerts = <<>>
    /\ evaluated = <<>>

\* The scheduler of an Android collector that is not bound to a package.
Init ==
    /\ InitDataCollector
    /\ InitExtractor("android", "")
    /\ InitMonitor
    /\ pair = InitTwo
    /\ InitService

\* ------------------------------------------------------------- the clock
\* One unit of time passes: time.time() grows by one for every running loop
\* and every sleep in progress is one unit nearer its end.
Tick ==
    /\ thr' = [t \in Threads |->
                 [thr[t] EXCEPT
                    !.elapsed = IF thr[t].pc \in LoopPcs \ {"started"}
                                THEN Min(@ + 1, thr[t].duration) ELSE @,
                    !.remaining = Max(@ - 1, 0)]]
    /\ UNCHANGED <<is_collecting, collection_thread, data_buffer, max_buffer_size,
                   callbacks, caller, nextId, appendCount>>
    /\ UNCHANGED outside_vars

\* ------------------------------------------ add_callback, remove_callback
Registered == {callbacks[k] : k \in 1..Len(callbacks)}

\* `self.callbacks.append(callback)`: the list is not searched first, so a
\* callable added twice is in it twice.
add_callback(s) ==
    /\ Len(callbacks) < MaxCallbacks
    /\ callbacks' = Append(callbacks, s)
    /\ UNCHANGED <<is_collecting, collection_thread, data_buffer, max_buffer_size,
                   thr, caller, nextId, appendCount>>
    /\ UNCHANGED outside_vars

\* `if callback in self.callbacks: self.callbacks.remove(callback)`:
\* list.remove takes out the first occurrence.
remove_callback(s) ==
    /\ callbacks' =
          IF s \in Registered
          THEN LET k == CHOOSE j \in 1..Len(callbacks) :
                            /\ callbacks[j] = s
                            /\ \A i \in 1..(j - 1) : callbacks[i] # s
               IN SubSeq(callbacks, 1, k - 1) \o SubSeq(callbacks, k + 1, Len(callbacks))
          ELSE callbacks
    /\ UNCHANGED <<is_collecting, collection_thread, data_buffer, max_buffer_size,
                   thr, caller, nextId, appendCount>>
    /\ UNCHANGED outside_vars

\* ----------------------------------------------------------- clear_buffer
\* `self.data_buffer.clear()`
clear_buffer ==
    /\ data_buffer' = <<>>
    /\ UNCHANGED <<is_collecting, collection_thread, max_buffer_size, callbacks,
                   thr, caller, nextId, appendCount>>
    /\ UNCHANGED outside_vars

\* ------------------------------------------- start_continuous_collection
\* Thread objects not yet constructed, and callers about to construct one.
Unborn == {t \in Threads : thr[t].pc = "unborn"}
Born == Threads \ Unborn
Constructing == {c \in Callers : caller[c].pc \in {"start_set", "start_create"}}

\* Mutant of StartCheck: the call goes on whatever the flag says.
StartCheckNoGuard(c, i, d) ==
    /\ caller[c].pc = "idle"
    /\ Cardinality({x \in Callers : caller[x].pc \in {"start_set", "start_create"}})
          < Cardinality({t \in Threads : thr[t].pc = "unborn"})
    /\ caller' = [caller EXCEPT ![c] = [@ EXCEPT !.pc = "start_set",
                                                 !.interval = i, !.duration = d]]
    /\ UNCHANGED <<is_collecting, collection_thread, data_buffer, max_buffer_size,
                   callbacks, thr, nextId, appendCount>>
    /\ UNCHANGED outside_vars

\* `if self.is_collecting: return`
StartCheck(c, i, d) ==
    /\ caller[c].pc = "idle"
    /\ is_collecting \/ Cardinality(Constructing) < Cardinality(Unborn)
    /\ IF is_collecting
       THEN caller' = [caller EXCEPT ![c].pc = "start_return"]
       ELSE caller' = [x \in Callers |->
                         IF x = c
                         THEN [CallerIdle EXCEPT !.pc = "start_set",
                                                         !.interval = i, !.duration = d]
                         ELSE IF InStop(x) /\ caller[x].stopped = "clean"
                         THEN [caller[x] EXCEPT !.stopped = "overlapped"]
                         ELSE caller[x]]
    /\ UNCHANGED <<is_collecting, collection_thread, data_buffer, max_buffer_size,
                   callbacks, thr, nextId, appendCount>>
    /\ UNCHANGED outside_vars

\* the `return` of the call that found the flag set
StartReturn(c) ==
    /\ caller[c].pc = "start_return"
    /\ caller' = [caller EXCEPT ![c] = CallerIdle]
    /\ UNCHANGED <<is_collecting, collection_thread, data_buffer, max_buffer_size,
                   callbacks, thr, nextId, appendCount>>
    /\ UNCHANGED outside_vars

\* `self.is_collecting = True`
StartSetFlag(c) ==
    /\ caller[c].pc = "start_set"
    /\ is_collecting' = TRUE
    /\ caller' = [caller EXCEPT ![c].pc = "start_create"]
    /\ UNCHANGED <<collection_thread, data_buffer, max_buffer_size, callbacks, thr,
                   nextId, appendCount>>
    /\ UNCHANGED outside_vars

\* Mutant of StartCreateThread: the Thread object of the last run is kept
\* when there is one, and no new one is constructed.
StartCreateThreadReuse(c) ==
    /\ caller[c].pc = "start_create"
    /\ Unborn # {}
    /\ IF collection_thread # 0
       THEN /\ thr' = thr
            /\ collection_thread' = collection_thread
       ELSE LET t == CHOOSE u \in Unborn : \A v \in Unborn : u <= v
            IN /\ thr' = [thr EXCEPT ![t] = [NoThread EXCEPT !.pc = "created",
                                                            !.interval = caller[c].interval,
                                                            !.duration = caller[c].duration]]
               /\ collection_thread' = t
    /\ caller' = [caller EXCEPT ![c].pc = "start_start"]
    /\ UNCHANGED <<is_collecting, data_buffer, max_buffer_size, callbacks,
                   nextId, appendCount>>
    /\ UNCHANGED outside_vars

\* `self.collection_thread = threading.Thread(target=self._collection_loop, ...)`
StartCreateThread(c) ==
    /\ caller[c].pc = "start_create"
    /\ Unborn # {}
    /\ LET t == CHOOSE u \in Unborn : \A v \in Unborn : u <= v
       IN /\ thr' = [thr EXCEPT ![t] = [NoThread EXCEPT !.pc = "created",
                                                       !.interval = caller[c].interval,
                                                       !.duration = caller[c].duration]]
          /\ collection_thread' = t
    /\ caller' = [caller EXCEPT ![c].pc = "start_start"]
    /\ UNCHANGED <<is_collecting, data_buffer, max_buffer_size, callbacks,
                   nextId, appendCount>>
    /\ UNCHANGED outside_vars

\* `self.collection_thread.start()`: the attribute is read again; starting a
\* Thread a second time raises RuntimeError.
StartThreadStart(c) ==
    /\ caller[c].pc = "start_start"
    /\ LET t == collection_thread
       IN IF thr[t].pc = "created"
          THEN /\ thr' = [thr EXCEPT ![t].pc = "started"]
               /\ caller' = [caller EXCEPT ![c] = CallerIdle]
          ELSE /\ thr' = thr
               /\ caller' = [caller EXCEPT ![c] = CallerRaised]
    /\ UNCHANGED <<is_collecting, collection_thread, data_buffer, max_buffer_size,
                   callbacks, nextId, appendCount>>
    /\ UNCHANGED outside_vars

\* -------------------------------------------- stop_continuous_collection
\* `self.is_collecting = False`
StopSetFlag(c) ==
    /\ caller[c].pc = "idle"
    /\ is_collecting' = FALSE
    /\ caller' = [caller EXCEPT ![c] =
                    [CallerIdle EXCEPT
                        !.pc = "stop_join",
                        !.stopped =
                            IF ~is_collecting THEN "idle"
                            ELSE IF \E x \in Callers \ {c} : InStart(x)
                            THEN "during_start" ELSE "clean"]]
    /\ UNCHANGED <<collection_thread, data_buffer, max_buffer_size, callbacks, thr,
                   nextId, appendCount>>
    /\ UNCHANGED outside_vars

\* Mutant of StopJoin: join() is called without the test for None, and
\* raises when no Thread was ever created.
StopJoinNoGuard(c) ==
    /\ caller[c].pc = "stop_join"
    /\ LET t == collection_thread
       IN caller' = [caller EXCEPT ![c] =
            IF t = 0 THEN CallerRaised
            ELSE IF thr[t].pc = "created" THEN CallerRaised
            ELSE IF thr[t].pc = "done" THEN CallerIdle
            ELSE [@ EXCEPT !.pc = "stop_wait", !.target = t]]
    /\ UNCHANGED <<is_collecting, collection_thread, data_buffer, max_buffer_size,
                   callbacks, thr, nextId, appendCount>>
    /\ UNCHANGED outside_vars

\* `if self.collection_thread: self.collection_thread.join()`: join of a Thread
\* that was never started raises RuntimeError, join of a finished one returns.
StopJoin(c) ==
    /\ caller[c].pc = "stop_join"
    /\ LET t == collection_thread
       IN caller' = [caller EXCEPT ![c] =
            IF t = 0 THEN CallerIdle
            ELSE IF thr[t].pc = "created" THEN CallerRaised
            ELSE IF thr[t].pc = "done" THEN CallerIdle
            ELSE [@ EXCEPT !.pc = "stop_wait", !.target = t]]
    /\ UNCHANGED <<is_collecting, collection_thread, data_buffer, max_buffer_size,
                   callbacks, thr, nextId, appendCount>>
    /\ UNCHANGED outside_vars

\* join() returns once the joined Thread has ended.
StopJoinReturn(c) ==
    /\ caller[c].pc = "stop_wait"
    /\ thr[caller[c].target].pc = "done"
    /\ caller' = [caller EXCEPT ![c] = CallerIdle]
    /\ UNCHANGED <<is_collecting, collection_thread, data_buffer, max_buffer_size,
                   callbacks, thr, nextId, appendCount>>
    /\ UNCHANGED outside_vars

\* The RuntimeError of Thread.start or Thread.join leaves the method and
\* reaches the code that called it.
CallerUnwind(c) ==
    /\ caller[c].pc = "raised"
    /\ caller' = [caller EXCEPT ![c] = CallerIdle]
    /\ UNCHANGED <<is_collecting, collection_thread, data_buffer, max_buffer_size,
                   callbacks, thr, nextId, appendCount>>
    /\ UNCHANGED outside_vars

\* ------------------------------------------------------ _collection_loop
\* Every step of the loop of Thread t leaves the callers, the callback list
\* and the capacity alone.
LoopFrame ==
    UNCHANGED <<collection_thread, max_buffer_size, callbacks, caller, outside_vars>>

\* `start_time = time.time()`
LoopBegin(t) ==
    /\ thr[t].pc = "started"
    /\ thr' = [thr EXCEPT ![t].pc = "while", ![t].elapsed = 0]
    /\ UNCHANGED <<is_collecting, data_buffer, nextId, appendCount>>
    /\ LoopFrame

\* `if duration and (time.time() - start_time) >= duration: break`
Expired(t) == thr[t].duration # 0 /\ thr[t].elapsed >= thr[t].duration

\* `while self.is_collecting:` and the duration check under it.  The check
\* reads only the clock and the Thread's own frame, and both the false flag
\* and the expiry lead to the same exit, so the two reads are one step.
LoopWhile(t) ==
    /\ thr[t].pc = "while"
    /\ thr' = [thr EXCEPT ![t].pc = IF is_collecting /\ ~Expired(t)
                                    THEN "collect" ELSE "exit"]
    /\ UNCHANGED <<is_collecting, data_buffer, nextId, appendCount>>
    /\ LoopFrame

\* `data = self.collect_all()`: one new PerformanceData
Assemble(t) ==
    /\ thr[t].pc = "collect"
    /\ nextId' = nextId + 1
    /\ thr' = [thr EXCEPT ![t].pc = "append", ![t].data = nextId']
    /\ UNCHANGED <<is_collecting, data_buffer, appendCount>>
    /\ LoopFrame

LoopCollect(t) ==
    /\ nextId < MaxSamples
    /\ Assemble(t)

\* The same once RaceSamples ids are in use, for runs without end: the new
\* PerformanceData takes the last id again.
LoopCollectSat(t) ==
    /\ nextId >= RaceSamples
    /\ thr[t].pc = "collect"
    /\ thr' = [thr EXCEPT ![t].pc = "append", ![t].data = nextId]
    /\ UNCHANGED <<is_collecting, data_buffer, nextId, appendCount>>
    /\ LoopFrame

\* `self.data_buffer.append(data)`
LoopAppend(t) ==
    /\ thr[t].pc = "append"
    /\ data_buffer' = Append(data_buffer, thr[t].data)
    /\ appendCount' = [appendCount EXCEPT ![thr[t].data] = Min(@ + 1, 2)]
    /\ thr' = [thr EXCEPT ![t].pc = "evict",
                          ![t].count = IF thr[t].duration = 0 THEN 0
                                       ELSE Min(@ + 1, MaxSamples)]
    /\ UNCHANGED <<is_collecting, nextId>>
    /\ LoopFrame

\* `if len(self.data_buffer) > self.max_buffer_size:`
LoopEvictCheck(t) ==
    /\ thr[t].pc = "evict"
    /\ thr' = [thr EXCEPT ![t].pc = IF Len(data_buffer) > max_buffer_size
                                    THEN "pop" ELSE "dispatch",
                          ![t].idx = IF Len(data_buffer) > max_buffer_size
                                     THEN 0 ELSE 1]
    /\ UNCHANGED <<is_collecting, data_buffer, nextId, appendCount>>
    /\ LoopFrame

\* Mutant of Sleeping: the loop does not wait between two ticks.
SleepingNoWait(f) == [f EXCEPT !.pc = "sleeping", !.remaining = 0,
                               !.data = 0, !.idx = 0, !.called = <<>>]

\* `time.sleep(interval)` begins.
Sleeping(f) == [f EXCEPT !.pc = "sleeping", !.remaining = f.interval,
                         !.data = 0, !.idx = 0, !.called = <<>>]

\* `self.data_buffer.pop(0)`; on an empty list it raises IndexError, which the
\* outer `except Exception` catches: print, `time.sleep(interval)`.
LoopEvictPop(t) ==
    /\ thr[t].pc = "pop"
    /\ IF data_buffer = <<>>
       THEN /\ data_buffer' = data_buffer
            /\ thr' = [thr EXCEPT ![t] = Sleeping(@)]
       ELSE /\ data_buffer' = Tail(data_buffer)
            /\ thr' = [thr EXCEPT ![t].pc = "dispatch", ![t].idx = 1]
    /\ UNCHANGED <<is_collecting, nextId, appendCount>>
    /\ LoopFrame

\* The subscribers whose handler raises an Exception on every sample.
Raising == {"s2"}

\* Mutant of AfterCallback: the exception of a callback is not caught by the
\* inner try; it reaches the outer `except Exception`, which prints and sleeps.
AfterCallbackUncaught(t) ==
    LET f == [thr[t] EXCEPT !.called = Append(@, <<callbacks[thr[t].idx], thr[t].data>>)]
    IN IF callbacks[thr[t].idx] \in Raising
       THEN Sleeping(f)
       ELSE [f EXCEPT !.idx = @ + 1]

\* The loop thread after `callback(data)` at the iterator's index: the call
\* returns, or it raises and the inner `except Exception` prints; in both
\* cases the `for` goes on with the next index.
AfterCallback(t) ==
    LET f == [thr[t] EXCEPT !.called = Append(@, <<callbacks[thr[t].idx], thr[t].data>>)]
    IN [f EXCEPT !.idx = @ + 1]

\* `for callback in self.callbacks: try: callback(data) except ...`: the list
\* iterator reads the live list at its index.
LoopDispatch(t) ==
    /\ thr[t].pc = "dispatch"
    /\ thr[t].idx <= Len(callbacks)
    /\ thr' = [thr EXCEPT ![t] = AfterCallback(t)]
    /\ UNCHANGED <<is_collecting, data_buffer, nextId, appendCount>>
    /\ LoopFrame

\* the iterator is exhausted; `time.sleep(interval)`
LoopDispatchEnd(t) ==
    /\ thr[t].pc = "dispatch"
    /\ thr[t].idx > Len(callbacks)
    /\ thr' = [thr EXCEPT ![t] = Sleeping(@)]
    /\ UNCHANGED <<is_collecting, data_buffer, nextId, appendCount>>
    /\ LoopFrame

\* time.sleep returns when the interval has passed, and not before.
CanLeaveSleep(t) == thr[t].remaining = 0

\* Mutant of LoopWake: the sleep also ends as soon as the flag is clear.
LoopWakeOnStop(t) ==
    /\ thr[t].pc = "sleeping"
    /\ (thr[t].remaining = 0 \/ ~is_collecting)
    /\ thr' = [thr EXCEPT ![t].pc = "while", ![t].remaining = 0]
    /\ UNCHANGED <<is_collecting, data_buffer, nextId, appendCount>>
    /\ UNCHANGED <<collection_thread, max_buffer_size, callbacks, caller, outside_vars>>

\* the return of `time.sleep(interval)`, back to the `while`
LoopWake(t) ==
    /\ thr[t].pc = "sleeping"
    /\ CanLeaveSleep(t)
    /\ thr' = [thr EXCEPT ![t].pc = "while"]
    /\ UNCHANGED <<is_collecting, data_buffer, nextId, appendCount>>
    /\ LoopFrame

\* `self.is_collecting = False` after the while loop; run() returns.
LoopExit(t) ==
    /\ thr[t].pc = "exit"
    /\ is_collecting' = FALSE
    /\ thr' = [thr EXCEPT ![t] = DoneThread]
    /\ UNCHANGED <<data_buffer, nextId, appendCount>>
    /\ LoopFrame

\* ------------------------------------------------------- specifications
\* The steps of the loop Threads, whoever started them.
LoopStep(t) ==
    \/ LoopBegin(t)
    \/ LoopWhile(t)
    \/ LoopAppend(t)
    \/ LoopEvictCheck(t)
    \/ LoopEvictPop(t)
    \/ LoopDispatch(t)
    \/ LoopDispatchEnd(t)
    \/ LoopWake(t)
    \/ LoopExit(t)

\* The steps of a call of start or stop that is under way in caller c.
CallStep(c) ==
    \/ StartReturn(c)
    \/ StartSetFlag(c)
    \/ StartCreateThread(c)
    \/ StartThreadStart(c)
    \/ StopJoin(c)
    \/ StopJoinReturn(c)

\* Sequential control plane: one caller thread (the API handler of the spec's
\* "separate caller context") starts and stops the collector, registers and
\* removes subscribers and clears the buffer while the loop runs.
Next ==
    \/ Tick
    \/ \E s \in Subscribers : add_callback(s)
    \/ \E s \in Subscribers : remove_callback(s)
    \/ clear_buffer
    \/ \E a \in StartArgs : StartCheck(Control, a[1], a[2])
    \/ StopSetFlag(Control)
    \/ CallStep(Control)
    \/ \E t \in Threads : LoopCollect(t)
    \/ \E t \in Threads : LoopStep(t)

Spec == Init /\ [][Next]_vars

\* Concurrent control plane: every caller thread may call start at any time,
\* also while Control is inside a start or a stop; at most one loop per caller
\* and RaceSamples samples are created.
NextRace ==
    \/ Tick
    \/ \E s \in RaceSubscribers \ Registered : add_callback(s)
    \/ \E c \in Callers, a \in RaceArgs :
          (is_collecting
             \/ Cardinality(Born) + Cardinality(Constructing) < Cardinality(Callers))
          /\ StartCheck(c, a[1], a[2])
    \/ StopSetFlag(Control)
    \/ \E c \in Callers : CallStep(c)
    \/ \E c \in Callers : CallerUnwind(c)
    \/ \E t \in Threads : nextId < RaceSamples /\ LoopCollect(t)
    \/ \E t \in Threads : LoopStep(t)

\* The collector of the concurrent control plane has the smaller capacity.
InitRace == Init /\ \A n \in Capacities : max_buffer_size <= n

SpecRace == InitRace /\ [][NextRace]_vars

\* Two caller threads and loops that never run out of samples, under the
\* scheduling the interpreter and the operating system give: time passes,
\* every Thread that can take a step of its loop takes it in the end, and so
\* does every caller inside a call. Nothing obliges a caller to make a call.
\* Control starts and stops the collector while a second handler starts it;
\* no subscriber is registered.
NextLive ==
    \/ Tick
    \/ \E c \in Callers, a \in RaceArgs :
          (is_collecting
             \/ Cardinality(Born) + Cardinality(Constructing) < Cardinality(Callers))
          /\ StartCheck(c, a[1], a[2])
    \/ StopSetFlag(Control)
    \/ \E c \in Callers : CallStep(c)
    \/ \E c \in Callers : CallerUnwind(c)
    \/ \E t \in Threads : nextId < RaceSamples /\ LoopCollect(t)
    \/ \E t \in Threads : LoopCollectSat(t)
    \/ \E t \in Threads : LoopBegin(t)
    \/ \E t \in Threads : LoopWhile(t)
    \/ \E t \in Threads : LoopAppend(t)
    \/ \E t \in Threads : LoopEvictCheck(t)
    \/ \E t \in Threads : LoopEvictPop(t)
    \/ \E t \in Threads : LoopDispatchEnd(t)
    \/ \E t \in Threads : LoopWake(t)
    \/ \E t \in Threads : LoopExit(t)

LiveFairness ==
    /\ WF_vars(Tick)
    /\ \A t \in Threads :
          WF_vars(LoopStep(t) \/ (nextId < RaceSamples /\ LoopCollect(t)) \/ LoopCollectSat(t))
    /\ \A c \in Callers : WF_vars(CallStep(c) \/ CallerUnwind(c))

SpecLive == InitRace /\ [][NextLive]_vars /\ LiveFairness

\* ================================================== platform collectors
\* A float is kept as a fraction <<numerator, denominator>> with a positive
\* denominator, so that the divisions of the code are divisions.
Float(n) == <<n, 1>>
FloatEq(a, b) == a[1] * b[2] = b[1] * a[2]
FloatSub(a, b) ==
    IF a[2] = b[2] THEN <<a[1] - b[1], a[2]>>
    ELSE <<a[1] * b[2] - b[1] * a[2], a[2] * b[2]>>
FloatDiv(a, n) == <<a[1], a[2] * n>>
Negative(a) == a[1] < 0

\* What the device commands can answer.  NoPercentage and NoCounters stand for
\* a command that raises (transport failure, timeout) or an output without
\* the line looked for.
NoPercentage == -1
NoCounters == <<>>
Packages == {"", "app"}
Platforms == {"android", "ios"}
PidofOutputs == {0, 7}                                  \* 0: no process found
Percentages == {35, 90}                                 \* `top`, proc_info, sysinfo
CpuCounters == {<<100, 10>>, <<200, 20>>, <<400, 40>>}  \* /proc/stat: total, idle
ByteCounters == {<<1024, 0>>, <<4096, 2048>>, <<4096, 0>>}       \* rx, tx bytes

\* collect_network's `return {'rx_speed': 0, 'tx_speed': 0, 'rx_total': 0, 'tx_total': 0}`
NeutralNetwork == [rx_speed |-> Float(0), tx_speed |-> Float(0),
                   rx_total |-> Float(0), tx_total |-> Float(0)]

\* Every step of a platform collector leaves the scheduler and the monitor alone.
ExtractorFrame ==
    UNCHANGED <<is_collecting, collection_thread, data_buffer, max_buffer_size,
                callbacks, thr, caller, nextId, appendCount, monitor_vars, pair, service_vars>>

\* time.time() moves on.
ClockTick ==
    /\ clock < MaxClock
    /\ clock' = clock + 1
    /\ UNCHANGED <<platform, package_name, pid, last_cpu_data, last_network_data,
                   returned>>
    /\ ExtractorFrame

\* AndroidCollector.get_pid as collect_cpu and collect_network call it:
\* `if self.package_name and not self.pid: self.get_pid()`; out is the answer
\* of `pidof` (0 when it fails or finds nothing, and self.pid stays None).
PidAfterLookup(out) == IF package_name # "" /\ pid = 0 THEN out ELSE pid

\* Mutant of GlobalCpuUsage: the share of the idle ticks is returned.
GlobalCpuIdleShare(stat) ==
    IF last_cpu_data # <<>> /\ stat[1] - last_cpu_data[1] > 0
    THEN <<100 * (stat[2] - last_cpu_data[2]), stat[1] - last_cpu_data[1]>>
    ELSE Float(0)

\* The global branch of AndroidCollector.collect_cpu on the counters
\* stat = <<total_time, idle_time>>: the value returned.
GlobalCpuUsage(stat) ==
    IF last_cpu_data # <<>> /\ stat[1] - last_cpu_data[1] > 0
    THEN <<100 * ((stat[1] - last_cpu_data[1]) - (stat[2] - last_cpu_data[2])),
           stat[1] - last_cpu_data[1]>>
    ELSE Float(0)

\* AndroidCollector.collect_cpu.  out: answer of pidof; top: percentage in the
\* answer of `top -p pid`, if any; stat: counters of /proc/stat, if any.
AndroidCollector_collect_cpu(out, top, stat) ==
    /\ platform = "android"
    /\ Len(returned) < MaxExtractions
    /\ pid' = PidAfterLookup(out)
    /\ IF pid' # 0
       THEN /\ last_cpu_data' = last_cpu_data
            /\ returned' = Append(returned,
                 [op |-> "cpu", branch |-> "process", at |-> clock, read |-> top,
                  value |-> IF top = NoPercentage THEN Float(0) ELSE Float(top)])
       ELSE /\ last_cpu_data' = IF stat = NoCounters THEN last_cpu_data ELSE stat
            /\ returned' = Append(returned,
                 [op |-> "cpu", branch |-> "global", at |-> clock, read |-> stat,
                  value |-> IF stat = NoCounters THEN Float(0) ELSE GlobalCpuUsage(stat)])
    /\ UNCHANGED <<platform, package_name, last_network_data, clock>>
    /\ ExtractorFrame

\* Mutant of AndroidRates: the rates are left in bytes per second.
AndroidRatesInBytes(net) ==
    IF last_network_data # <<>> /\ clock - last_network_data.timestamp > 0
    THEN LET time_diff == clock - last_network_data.timestamp
         IN [rx_speed |-> FloatDiv(Float(net[1] - last_network_data.rx_bytes), time_diff),
             tx_speed |-> FloatDiv(Float(net[2] - last_network_data.tx_bytes), time_diff),
             rx_total |-> FloatDiv(Float(net[1]), 1024),
             tx_total |-> FloatDiv(Float(net[2]), 1024)]
    ELSE NeutralNetwork

\* The rates AndroidCollector.collect_network returns for the byte counters
\* net = <<rx_bytes, tx_bytes>> read at time.time() = clock.
AndroidRates(net) ==
    IF last_network_data # <<>> /\ clock - last_network_data.timestamp > 0
    THEN LET time_diff == clock - last_network_data.timestamp
         IN [rx_speed |-> FloatDiv(FloatDiv(Float(net[1] - last_network_data.rx_bytes), time_diff), 1024),
             tx_speed |-> FloatDiv(FloatDiv(Float(net[2] - last_network_data.tx_bytes), time_diff), 1024),
             rx_total |-> FloatDiv(Float(net[1]), 1024),
             tx_total |-> FloatDiv(Float(net[2]), 1024)]
    ELSE NeutralNetwork

\* AndroidCollector.collect_network.  out: answer of pidof; net: the summed
\* byte counters of the process's uid, or NoCounters when a command raises or
\* the status has no Uid line.  Without a pid nothing is read.
AndroidCollector_collect_network(out, net) ==
    /\ platform = "android"
    /\ Len(returned) < MaxExtractions
    /\ pid' = PidAfterLookup(out)
    /\ IF pid' # 0 /\ net # NoCounters
       THEN /\ last_network_data' = [rx_bytes |-> net[1], tx_bytes |-> net[2],
                                     timestamp |-> clock]
            /\ returned' = Append(returned,
                 [op |-> "network", branch |-> "process", at |-> clock, read |-> net,
                  value |-> AndroidRates(net)])
       ELSE /\ last_network_data' = last_network_data
            /\ returned' = Append(returned,
                 [op |-> "network", branch |-> IF pid' # 0 THEN "process" ELSE "global",
                  at |-> clock, read |-> NoCounters, value |-> NeutralNetwork])
    /\ UNCHANGED <<platform, package_name, last_cpu_data, clock>>
    /\ ExtractorFrame

\* IOSCollector.collect_cpu: the percentage of proc_info or sysinfo is passed
\* on; there is no baseline.
IOSCollector_collect_cpu(top) ==
    /\ platform = "ios"
    /\ Len(returned) < MaxExtractions
    /\ returned' = Append(returned,
         [op |-> "cpu", branch |-> IF package_name # "" THEN "process" ELSE "global",
          at |-> clock, read |-> top, value |-> IF top = NoPercentage THEN Float(0) ELSE Float(top)])
    /\ UNCHANGED <<platform, package_name, pid, last_cpu_data, last_network_data, clock>>
    /\ ExtractorFrame

\* What IOSCollector.collect_network returns for the byte counters
\* net = <<RX, TX>> read at time.time() = clock: totals in KB, rates from the
\* stored totals.
IOSNetwork(net) ==
    LET rx_total == FloatDiv(Float(net[1]), 1024)
        tx_total == FloatDiv(Float(net[2]), 1024)
    IN IF last_network_data # <<>> /\ clock - last_network_data.timestamp > 0
       THEN LET time_diff == clock - last_network_data.timestamp
            IN [rx_speed |-> FloatDiv(FloatSub(rx_total, last_network_data.rx_total), time_diff),
                tx_speed |-> FloatDiv(FloatSub(tx_total, last_network_data.tx_total), time_diff),
                rx_total |-> rx_total, tx_total |-> tx_total]
       ELSE [rx_speed |-> Float(0), tx_speed |-> Float(0),
             rx_total |-> rx_total, tx_total |-> tx_total]

\* IOSCollector.collect_network.  net: the RX and TX counters of network_info,
\* or NoCounters when the command raises.
IOSCollector_collect_network(net) ==
    /\ platform = "ios"
    /\ Len(returned) < MaxExtractions
    /\ IF net # NoCounters
       THEN /\ last_network_data' = [rx_total |-> FloatDiv(Float(net[1]), 1024),
                                     tx_total |-> FloatDiv(Float(net[2]), 1024),
                                     timestamp |-> clock]
            /\ returned' = Append(returned,
                 [op |-> "network", branch |-> "global", at |-> clock, read |-> net,
                  value |-> IOSNetwork(net)])
       ELSE /\ last_network_data' = last_network_data
            /\ returned' = Append(returned,
                 [op |-> "network", branch |-> "global", at |-> clock, read |-> NoCounters,
                  value |-> NeutralNetwork])
    /\ UNCHANGED <<platform, package_name, pid, last_cpu_data, clock>>
    /\ ExtractorFrame

\* A platform collector of either class, bound to a package or not, whose
\* extractions are called one after the other while time passes.
InitExtract ==
    /\ InitDataCollector
    /\ \E p \in Platforms, n \in Packages : InitExtractor(p, n)
    /\ InitMonitor
    /\ pair = InitTwo
    /\ InitService
    /\ \A n \in Capacities : max_buffer_size <= n

NextExtract ==
    \/ ClockTick
    \/ \E out \in PidofOutputs, top \in Percentages \cup {NoPercentage},
          stat \in CpuCounters \cup {NoCounters} :
          AndroidCollector_collect_cpu(out, top, stat)
    \/ \E out \in PidofOutputs, net \in ByteCounters \cup {NoCounters} :
          AndroidCollector_collect_network(out, net)
    \/ \E top \in Percentages \cup {NoPercentage} : IOSCollector_collect_cpu(top)
    \/ \E net \in ByteCounters \cup {NoCounters} : IOSCollector_collect_network(net)

SpecExtract == InitExtract /\ [][NextExtract]_vars

\* ------------------------------------------------- DataCollector.collect_all
\* The extractors collect_all calls, in the order of its calls.
Extractors ==
    <<"cpu", "memory", "memory_detail", "network", "fps", "battery", "gpu", "thermal">>

\* The methods each collector class defines.
Defines(p) ==
    IF p = "android"
    THEN {"cpu", "memory", "memory_detail", "network", "fps", "battery", "gpu", "thermal"}
    ELSE {"cpu", "memory", "network", "fps", "battery"}

\* The extractors whose calls sit behind a hasattr test.
Optional == {"gpu", "thermal"}

\* The calls collect_all makes on a collector of platform p, in order: the
\* first call of a method the class does not have raises AttributeError,
\* which ends the try block.
RECURSIVE CallsFrom(_, _)
CallsFrom(p, k) ==
    IF k > Len(Extractors) THEN <<>>
    ELSE IF Extractors[k] \in Defines(p) THEN <<Extractors[k]>> \o CallsFrom(p, k + 1)
    ELSE IF Extractors[k] \in Optional THEN CallsFrom(p, k + 1)
    ELSE <<>>

Range(seq) == {seq[k] : k \in DOMAIN seq}

\* The extractors without a baseline: each returns what it parsed, or its
\* neutral value when its command or its parse fails.
Plain == {"memory", "memory_detail", "fps", "battery", "gpu", "thermal"}

\* DataCollector.collect_all on a collector whose device answers pidof with
\* out during the call, top and stat to the CPU extractor, net to the network
\* extractor, and whose plain extractors in failing fail.  The sample starts
\* as PerformanceData() and each call that returns fills its field.
DataCollector_collect_all(out, top, stat, net, failing) ==
    LET called == Range(CallsFrom(platform, 1))
        p == IF platform = "android" THEN PidAfterLookup(out) ELSE pid
        cpu == IF platform = "ios" \/ p # 0
               THEN (IF top = NoPercentage THEN Float(0) ELSE Float(top))
               ELSE (IF stat = NoCounters THEN Float(0) ELSE GlobalCpuUsage(stat))
        cpu_read == IF platform = "ios" \/ p # 0 THEN top # NoPercentage
                    ELSE stat # NoCounters
        net_read == /\ "network" \in called
                    /\ net # NoCounters
                    /\ platform = "android" => p # 0
        network == IF ~net_read THEN NeutralNetwork
                   ELSE IF platform = "android" THEN AndroidRates(net)
                   ELSE IOSNetwork(net)
    IN /\ pid' = p
       /\ last_cpu_data' = IF platform = "android" /\ p = 0 /\ stat # NoCounters
                           THEN stat ELSE last_cpu_data
       /\ last_network_data' =
            IF ~net_read THEN last_network_data
            ELSE IF platform = "android"
                 THEN [rx_bytes |-> net[1], tx_bytes |-> net[2], timestamp |-> clock]
                 ELSE [rx_total |-> FloatDiv(Float(net[1]), 1024),
                       tx_total |-> FloatDiv(Float(net[2]), 1024),
                       timestamp |-> clock]
       /\ returned' =
            <<[op |-> "all", at |-> clock, called |-> called,
               failed |-> (failing \cap called)
                          \cup (IF cpu_read THEN {} ELSE {"cpu"})
                          \cup (IF "network" \in called /\ ~net_read
                                THEN {"network"} ELSE {}),
               cpu_usage |-> cpu,
               network_usage |-> network,
               plain |-> [e \in Plain |->
                            IF e \in called /\ e \notin failing
                            THEN "parsed" ELSE "neutral"]]>>
       /\ UNCHANGED <<platform, package_name, clock>>
       /\ ExtractorFrame

\* The extractor whose command or parse fails in one call of collect_all, if
\* any, and the answers of the device to the others.
Failures == {"none"} \cup Range(Extractors)
AssemblePercentages == {90}
AssembleCpuCounters == {<<100, 10>>, <<200, 20>>}
AssembleByteCounters == {<<1024, 0>>, <<4096, 2048>>}

\* A DataCollector of either platform whose collect_all is called again and
\* again while time passes.
NextAssemble ==
    \/ ClockTick
    \/ \E out \in PidofOutputs, top \in AssemblePercentages,
          stat \in AssembleCpuCounters, net \in AssembleByteCounters,
          fail \in Failures :
          DataCollector_collect_all(out,
              IF fail = "cpu" THEN NoPercentage ELSE top,
              IF fail = "cpu" THEN NoCounters ELSE stat,
              IF fail = "network" THEN NoCounters ELSE net,
              {fail} \cap Plain)

SpecAssemble == InitExtract /\ [][NextAssemble]_vars

\* ------------------------------------------------------ AppPerformanceMonitor
\* a > b and a < b on fractions with positive denominators
FloatGt(a, b) == a[1] * b[2] > b[1] * a[2]
FloatLt(a, b) == a[1] * b[2] < b[1] * a[2]

\* config.get("alert.<metric>_threshold", default): the defaults of the
\* configuration, which are also the defaults of the calls.
cpu_threshold == 80
memory_threshold == 80
fps_threshold == 30
battery_temp_threshold == 45

\* The dict `thresholds` of _check_alert.
thresholds ==
    [cpu |-> Float(cpu_threshold), memory |-> Float(memory_threshold),
     fps |-> Float(fps_threshold), battery_temp |-> Float(battery_temp_threshold)]

Metrics == DOMAIN thresholds

\* Mutant of is_alert: a value equal to the threshold alerts as well.
is_alert_inclusive(metric, value) ==
    IF metric = "fps" THEN ~FloatGt(value, thresholds[metric])
    ELSE ~FloatLt(value, thresholds[metric])

\* `is_alert = value < threshold if metric == 'fps' else value > threshold`
is_alert(metric, value) ==
    IF metric = "fps" THEN FloatLt(value, thresholds[metric])
    ELSE FloatGt(value, thresholds[metric])

\* `metric.upper()`
upper(metric) ==
    CASE metric = "cpu" -> "CPU"
      [] metric = "memory" -> "MEMORY"
      [] metric = "fps" -> "FPS"
      [] metric = "battery_temp" -> "BATTERY_TEMP"

\* The f-string of the alert's message, part by part.
AlertMessage(metric, value) ==
    <<upper(metric), IF metric = "fps" THEN "below" ELSE "above", "threshold:",
      value, IF metric = "fps" THEN "<" ELSE ">", thresholds[metric]>>

\* The alert dict _check_alert builds.
AlertEvent(metric, value) ==
    [timestamp |-> clock, metric |-> metric, value |-> value,
     threshold |-> thresholds[metric], message |-> AlertMessage(metric, value)]

\* The values handed to _check_alert for a metric so far, oldest first.
RECURSIVE EvaluationsOf(_, _)
EvaluationsOf(metric, seq) ==
    IF seq = <<>> THEN <<>>
    ELSE IF Head(seq)[1] = metric
         THEN <<Head(seq)[2]>> \o EvaluationsOf(metric, Tail(seq))
    ELSE EvaluationsOf(metric, Tail(seq))

\* Mutant of _check_alert: an alert is raised on a crossing only, when the
\* previous evaluation of the metric was within its threshold.
check_alert_on_crossing(metric, value) ==
    LET before == EvaluationsOf(metric, evaluated)
        was_alert == before # <<>> /\ is_alert(metric, before[Len(before)])
    IN /\ evaluated' = Append(evaluated, <<metric, value>>)
       /\ alerts' = IF metric \in Metrics /\ is_alert(metric, value) /\ ~was_alert
                    THEN Append(alerts, AlertEvent(metric, value))
                    ELSE alerts

\* Mutant of _check_alert: a metric that already has an alert in the log
\* raises no other.
check_alert_once(metric, value) ==
    /\ evaluated' = Append(evaluated, <<metric, value>>)
    /\ alerts' = IF /\ metric \in Metrics
                    /\ is_alert(metric, value)
                    /\ \A k \in 1..Len(alerts) : alerts[k].metric # metric
                 THEN Append(alerts, AlertEvent(metric, value))
                 ELSE alerts

\* Mutant of _check_alert: the log keeps the latest event of each metric only;
\* the new event replaces the earlier ones of its metric.
check_alert_latest(metric, value) ==
    /\ evaluated' = Append(evaluated, <<metric, value>>)
    /\ alerts' = IF metric \in Metrics /\ is_alert(metric, value)
                 THEN Append(SelectSeq(alerts, LAMBDA e : e.metric # metric),
                             AlertEvent(metric, value))
                 ELSE alerts

\* AppPerformanceMonitor._check_alert(metric, value): it reads the thresholds
\* and the value and nothing else, and appends an alert when the value is
\* beyond the threshold.
_check_alert(metric, value) ==
    /\ evaluated' = Append(evaluated, <<metric, value>>)
    /\ alerts' = IF metric \in Metrics /\ is_alert(metric, value)
                 THEN Append(alerts, AlertEvent(metric, value))
                 ELSE alerts

\* What the monitor's methods leave alone.
MonitorFrame ==
    UNCHANGED <<is_collecting, collection_thread, data_buffer, max_buffer_size,
                callbacks, thr, caller, nextId, appendCount,
                platform, package_name, last_network_data, clock, returned, pair, service_vars>>

\* The calls of the monitor's methods in one session.
MaxMonitorCalls == 3
MonitorCalls == Len(evaluated) + Len(performance_data)

\* The readings of the device in a session of the monitor; 0 is also what a
\* failed extraction returns.
MonitorPercentages == {35, 80, 90}
MemoryReadings == {0, 80, 120}
FpsReadings == {0, 30, 60}
TemperatureReadings == {30, 45, 50}

\* AppPerformanceMonitor.collect_cpu: collect_single('cpu') and the check.
APM_collect_cpu(out, top, stat) ==
    LET p == IF platform = "android" THEN PidAfterLookup(out) ELSE pid
        cpu_usage == IF platform = "ios" \/ p # 0
                     THEN (IF top = NoPercentage THEN Float(0) ELSE Float(top))
                     ELSE (IF stat = NoCounters THEN Float(0) ELSE GlobalCpuUsage(stat))
    IN /\ MonitorCalls < MaxMonitorCalls
       /\ pid' = p
       /\ last_cpu_data' = IF platform = "android" /\ p = 0 /\ stat # NoCounters
                           THEN stat ELSE last_cpu_data
       /\ _check_alert("cpu", cpu_usage)
       /\ UNCHANGED performance_data
       /\ MonitorFrame

\* AppPerformanceMonitor.collect_memory: collect_single('memory') and the check.
APM_collect_memory(out, mb) ==
    /\ MonitorCalls < MaxMonitorCalls
    /\ pid' = IF platform = "android" THEN PidAfterLookup(out) ELSE pid
    /\ _check_alert("memory", Float(mb))
    /\ UNCHANGED <<performance_data, last_cpu_data>>
    /\ MonitorFrame

\* AppPerformanceMonitor.collect_fps: collect_single('fps') and the check.
APM_collect_fps(fps) ==
    /\ MonitorCalls < MaxMonitorCalls
    /\ _check_alert("fps", Float(fps))
    /\ UNCHANGED <<performance_data, pid, last_cpu_data>>
    /\ MonitorFrame

\* AppPerformanceMonitor.collect_battery: collect_single('battery'), and the
\* check when the dict has a temperature.
APM_collect_battery(has_temperature, temperature) ==
    /\ MonitorCalls < MaxMonitorCalls
    /\ IF has_temperature
       THEN _check_alert("battery_temp", Float(temperature))
       ELSE UNCHANGED <<alerts, evaluated>>
    /\ UNCHANGED <<performance_data, pid, last_cpu_data>>
    /\ MonitorFrame

\* The samples a tick of the scheduler hands to its subscribers: one within
\* every threshold and one beyond every threshold.
Calm == [cpu_usage |-> Float(35), memory_usage |-> Float(0), fps |-> Float(60),
         temperature |-> Float(30)]
Hot == [cpu_usage |-> Float(90), memory_usage |-> Float(120), fps |-> Float(0),
        temperature |-> Float(50)]
TickSamples == {Calm, Hot}

\* AppPerformanceMonitor._on_data_collected(data), the subscriber collect_all
\* registers with the scheduler: the sample is appended to performance_data
\* (and every tenth one is printed).
APM_on_data_collected(data) ==
    /\ MonitorCalls < MaxMonitorCalls
    /\ performance_data' = Append(performance_data, data)
    /\ UNCHANGED <<alerts, evaluated, pid, last_cpu_data>>
    /\ MonitorFrame

\* A monitor of a package on either platform: the scheduler's ticks deliver
\* samples to its subscriber while its single-metric methods are called.
InitMonitoring ==
    /\ InitDataCollector
    /\ \E p \in Platforms : InitExtractor(p, "app")
    /\ InitMonitor
    /\ pair = InitTwo
    /\ InitService
    /\ \A n \in Capacities : max_buffer_size <= n

NextMonitoring ==
    \/ \E data \in TickSamples : APM_on_data_collected(data)
    \/ \E out \in PidofOutputs, top \in MonitorPercentages \cup {NoPercentage},
          stat \in AssembleCpuCounters \cup {NoCounters} :
          APM_collect_cpu(out, top, stat)
    \/ \E out \in PidofOutputs, mb \in MemoryReadings : APM_collect_memory(out, mb)
    \/ \E fps \in FpsReadings : APM_collect_fps(fps)
    \/ \E has_temperature \in BOOLEAN, temperature \in TemperatureReadings :
          APM_collect_battery(has_temperature, temperature)

SpecMonitoring == InitMonitoring /\ [][NextMonitoring]_vars

\* ------------------------------------------- reads of the buffer during a tick
\* Mutant of AssembleBegin: the new PerformanceData is put in the buffer
\* before its extractors have run.
AssembleBeginInBuffer(t) ==
    /\ thr[t].pc = "collect"
    /\ nextId' = nextId + 1
    /\ thr' = [thr EXCEPT ![t].pc = "assembling", ![t].data = nextId']
    /\ data_buffer' = Append(data_buffer, nextId')
    /\ UNCHANGED <<is_collecting, appendCount>>
    /\ LoopFrame

\* `data = PerformanceData()`, the first line of collect_all: the new object
\* is held by a local variable of the call.
AssembleBegin(t) ==
    /\ thr[t].pc = "collect"
    /\ nextId' = nextId + 1
    /\ thr' = [thr EXCEPT ![t].pc = "assembling", ![t].data = nextId']
    /\ UNCHANGED <<is_collecting, data_buffer, appendCount>>
    /\ LoopFrame

\* The extractor calls of collect_all fill the object, `return data` hands it
\* to the loop, which binds it to its own local `data`.
AssembleEnd(t) ==
    /\ thr[t].pc = "assembling"
    /\ thr' = [thr EXCEPT ![t].pc = "append"]
    /\ UNCHANGED <<is_collecting, data_buffer, nextId, appendCount>>
    /\ LoopFrame

\* The samples whose extractors are running.
InAssembly == {thr[t].data : t \in {u \in Threads : thr[u].pc = "assembling"}}

\* The arguments of get_recent_data in a session.
Counts == {0, 1, 2}

\* `self.data_buffer[-count:] if count <= len(self.data_buffer) else
\* self.data_buffer.copy()`; -0 is 0, so the slice of count 0 is the whole list.
RecentData(count) ==
    IF count <= Len(data_buffer)
    THEN (IF count = 0 THEN data_buffer ELSE LastN(data_buffer, count))
    ELSE data_buffer

\* DataCollector.get_recent_data(count), called from a thread of the control
\* plane; next to the list it returns, the model keeps which of its samples
\* were in assembly at the time of the read.
get_recent_data(count) ==
    /\ returned' = <<[op |-> "recent", count |-> count, value |-> RecentData(count),
                     assembling |-> Range(RecentData(count)) \cap InAssembly]>>
    /\ UNCHANGED <<is_collecting, collection_thread, data_buffer, max_buffer_size,
                   callbacks, thr, caller, nextId, appendCount>>
    /\ UNCHANGED <<platform, package_name, pid, last_cpu_data, last_network_data, clock>>
    /\ UNCHANGED <<monitor_vars, pair, service_vars>>

\* A control plane that starts and stops the collector and reads the buffer
\* while the loop runs, with the assembly of a sample as a step of its own.
NextRead ==
    \/ Tick
    \/ \E s \in RaceSubscribers \ Registered : add_callback(s)
    \/ \E a \in RaceArgs : StartCheck(Control, a[1], a[2])
    \/ StopSetFlag(Control)
    \/ CallStep(Control)
    \/ \E t \in Threads : nextId < RaceSamples /\ AssembleBegin(t)
    \/ \E t \in Threads : AssembleEnd(t)
    \/ \E t \in Threads : LoopStep(t)
    \/ \E count \in Counts : get_recent_data(count)

SpecRead == InitRace /\ [][NextRead]_vars

\* ------------------------------------------------------------ two collectors
\* The object an attribute of collector c refers to, in the process p.
Deref(p, c, field) == p.heap[p.ref[c][field]]

\* Everything of collector c the spec calls its state, in the process p.
StateOf(p, c) ==
    [is_collecting |-> p.is_collecting[c],
     data_buffer |-> Deref(p, c, "data_buffer"),
     callbacks |-> Deref(p, c, "callbacks"),
     collector |-> Deref(p, c, "collector")]

\* What the methods of the two collectors leave alone.
TwoFrame ==
    UNCHANGED <<is_collecting, collection_thread, data_buffer, max_buffer_size,
                callbacks, thr, caller, nextId, appendCount,
                extractor_vars, monitor_vars, service_vars>>

\* The samples each of the two collectors assembles.
MaxTwoSamples == 2

\* The platform collector of c after a CPU extraction and a network
\* extraction: get_pid, then the baseline of the branch taken.
AfterCpu(o, out, stat) ==
    LET p == IF o.pid # 0 THEN o.pid ELSE out
    IN [o EXCEPT !.pid = p,
                 !.last_cpu_data = IF p = 0 /\ stat # NoCounters THEN stat ELSE @]

AfterNetwork(o, out, net) ==
    LET p == IF o.pid # 0 THEN o.pid ELSE out
    IN [o EXCEPT !.pid = p,
                 !.last_network_data =
                    IF p # 0 /\ net # NoCounters
                    THEN [rx_bytes |-> net[1], tx_bytes |-> net[2], timestamp |-> clock]
                    ELSE @]

\* c.start_continuous_collection and c.stop_continuous_collection.
TwoStart(c) ==
    /\ ~pair.is_collecting[c]
    /\ pair' = [pair EXCEPT !.is_collecting[c] = TRUE, !.last = c]
    /\ TwoFrame

TwoStop(c) ==
    /\ pair.is_collecting[c]
    /\ pair' = [pair EXCEPT !.is_collecting[c] = FALSE, !.last = c]
    /\ TwoFrame

\* One tick of the loop of c: collect_all, append, eviction.
TwoTick(c, out, stat, net) ==
    /\ pair.is_collecting[c]
    /\ pair.made[c] < MaxTwoSamples
    /\ LET appended == Append(Deref(pair, c, "data_buffer"), <<c, pair.made[c] + 1>>)
       IN pair' = [pair EXCEPT
                     !.made[c] = @ + 1,
                     !.heap[pair.ref[c]["collector"]] =
                         AfterNetwork(AfterCpu(@, out, stat), out, net),
                     !.heap[pair.ref[c]["data_buffer"]] =
                         IF Len(appended) > max_buffer_size THEN Tail(appended)
                         ELSE appended,
                     !.last = c]
    /\ TwoFrame

\* c.clear_buffer()
TwoClear(c) ==
    /\ pair' = [pair EXCEPT !.heap[pair.ref[c]["data_buffer"]] = <<>>, !.last = c]
    /\ TwoFrame

\* c.add_callback(s), for a subscriber not in the list yet
TwoAddCallback(c, s) ==
    /\ s \notin Range(Deref(pair, c, "callbacks"))
    /\ pair' = [pair EXCEPT !.heap[pair.ref[c]["callbacks"]] = Append(@, s), !.last = c]
    /\ TwoFrame

\* c.collect_single('cpu') and c.collect_single('network')
TwoExtractCpu(c, out, stat) ==
    /\ pair' = [pair EXCEPT !.heap[pair.ref[c]["collector"]] = AfterCpu(@, out, stat),
                            !.last = c]
    /\ TwoFrame

TwoExtractNetwork(c, out, net) ==
    /\ pair' = [pair EXCEPT !.heap[pair.ref[c]["collector"]] = AfterNetwork(@, out, net),
                            !.last = c]
    /\ TwoFrame

\* The two collectors, their loops and their callers, in any interleaving.
NextTwo ==
    \/ \E c \in Collectors : TwoStart(c)
    \/ \E c \in Collectors : TwoStop(c)
    \/ \E c \in Collectors, out \in PidofOutputs, stat \in AssembleCpuCounters,
          net \in AssembleByteCounters : TwoTick(c, out, stat, net)
    \/ \E c \in Collectors : TwoClear(c)
    \/ \E c \in Collectors, s \in RaceSubscribers : TwoAddCallback(c, s)
    \/ \E c \in Collectors, out \in PidofOutputs, stat \in AssembleCpuCounters :
          TwoExtractCpu(c, out, stat)
    \/ \E c \in Collectors, out \in PidofOutputs, net \in AssembleByteCounters :
          TwoExtractNetwork(c, out, net)

SpecTwo == InitRace /\ [][NextTwo]_vars

\* ------------------------------------------------------------- export_data
\* PerformanceData.to_dict of the sample with id k: a dict of its fields.
to_dict(k) == [timestamp |-> k, sample |-> k]

\* The values of the argument `format` after .lower().
Formats == {"json", "csv", "xml"}

\* An export_data call is between its first and its last step.
Exporting == returned # <<>> /\ returned[1].op = "export" /\ returned[1].pc = "iterating"

\* What export_data leaves alone.
ExportFrame ==
    /\ UNCHANGED <<is_collecting, collection_thread, data_buffer, max_buffer_size,
                   callbacks, thr, caller, nextId, appendCount>>
    /\ UNCHANGED <<platform, package_name, pid, last_cpu_data, last_network_data, clock>>
    /\ UNCHANGED <<monitor_vars, pair, service_vars>>

\* export_data(file_path, format) is called: the list comprehension creates
\* its iterator over self.data_buffer.  before is the buffer at the call and
\* stayed the samples that have been in the buffer at every step since.
ExportBegin(format) ==
    /\ ~Exporting
    /\ returned' = <<[op |-> "export", pc |-> "iterating", format |-> format,
                      idx |-> 1, data_list |-> <<>>, before |-> data_buffer,
                      stayed |-> Range(data_buffer), written |-> <<>>,
                      result |-> FALSE]>>
    /\ ExportFrame

\* `data.to_dict() for data in self.data_buffer`: the iterator reads the
\* live list at its index.
ExportNext ==
    /\ Exporting
    /\ returned[1].idx <= Len(data_buffer)
    /\ returned' = <<[returned[1] EXCEPT
                        !.data_list = Append(@, to_dict(data_buffer[returned[1].idx])),
                        !.idx = @ + 1,
                        !.stayed = @ \cap Range(data_buffer)]>>
    /\ ExportFrame

\* The iterator is exhausted; the file is written for json and csv when the
\* file system (and, for csv, the import of pandas) allows, and True is
\* returned; every exception, the ValueError of another format included,
\* makes the call return False.
ExportWrite(io_ok) ==
    /\ Exporting
    /\ returned[1].idx > Len(data_buffer)
    /\ LET ok == io_ok /\ returned[1].format \in {"json", "csv"}
       IN returned' = <<[returned[1] EXCEPT
                           !.pc = "done",
                           !.stayed = @ \cap Range(data_buffer),
                           !.written = IF ok THEN returned[1].data_list ELSE <<>>,
                           !.result = ok]>>
    /\ ExportFrame

\* A control plane that starts and stops the collector and exports the
\* buffer while the loop runs.
NextExport ==
    \/ Tick
    \/ \E s \in RaceSubscribers \ Registered : add_callback(s)
    \/ \E a \in RaceArgs : StartCheck(Control, a[1], a[2])
    \/ StopSetFlag(Control)
    \/ CallStep(Control)
    \/ \E t \in Threads : nextId < RaceSamples /\ LoopCollect(t)
    \/ \E t \in Threads : LoopStep(t)
    \/ \E format \in Formats : ExportBegin(format)
    \/ ExportNext
    \/ \E io_ok \in BOOLEAN : ExportWrite(io_ok)

SpecExport == InitRace /\ [][NextExport]_vars

\* ------------------------------------------------------------ collect_single
\* The targets collect_single knows, and the targets of the requests.
KnownTargets == Range(Extractors)
Targets == KnownTargets \cup {"disk", ""}

\* The device ids of the requests: none, a device the manager has, one it
\* does not have.
DeviceIds == {"", "emulator-5554", "gone"}

\* DataCollector.collect_single(target) on a collector of platform p, whose
\* extractor fails or not: the extractor's value, its neutral value when it
\* fails, and None when anything is raised inside the try: the ValueError of
\* an unknown target, the AttributeError of a method the class does not have.
collect_single(p, target, fails) ==
    IF target \notin KnownTargets THEN "None"
    ELSE IF target \notin Defines(p) THEN "None"
    ELSE IF fails THEN "neutral"
    ELSE "parsed"

\* The response of the route /collect: status, success and data.
Response(device_id, package, target, fails) ==
    IF device_id = "" \/ package = ""
    THEN [status |-> 400, success |-> FALSE, data |-> "absent"]
    ELSE IF device_id = "gone"
    THEN [status |-> 404, success |-> FALSE, data |-> "absent"]
    ELSE [status |-> 200, success |-> TRUE,
          data |-> collect_single(platform, target, fails)]

\* collect_performance_data: one request to /collect.  The DataCollector is
\* made for the request and dropped after it.
collect_performance_data(device_id, package, target, fails) ==
    /\ returned' =
         <<[op |-> "collect", device_id |-> device_id, package |-> package,
            target |-> target, response |-> Response(device_id, package, target, fails)]>>
    /\ UNCHANGED <<platform, package_name, pid, last_cpu_data, last_network_data, clock>>
    /\ ExtractorFrame

\* Requests to /collect for the devices of one platform.
NextCollect ==
    \E device_id \in DeviceIds, package \in Packages, target \in Targets,
       fails \in BOOLEAN :
       collect_performance_data(device_id, package, target, fails)

SpecCollect == InitExtract /\ [][NextCollect]_vars

\* ------------------------------------------------------- summary and report
\* a + b and a <= b on fractions with positive denominators
FloatAdd(a, b) ==
    IF a[2] = b[2] THEN <<a[1] + b[1], a[2]>>
    ELSE <<a[1] * b[2] + b[1] * a[2], a[2] * b[2]>>
FloatLe(a, b) == ~FloatGt(a, b)

\* Python's sum, min and max of a list of numbers (min and max of a
\* non-empty one).
RECURSIVE sum(_)
sum(values) ==
    IF values = <<>> THEN Float(0) ELSE FloatAdd(Head(values), sum(Tail(values)))

RECURSIVE min(_)
min(values) ==
    IF Len(values) = 1 THEN values[1]
    ELSE LET m == min(Tail(values))
         IN IF FloatLt(m, Head(values)) THEN m ELSE Head(values)

RECURSIVE max(_)
max(values) ==
    IF Len(values) = 1 THEN values[1]
    ELSE LET m == max(Tail(values))
         IN IF FloatGt(m, Head(values)) THEN m ELSE Head(values)

\* Mutant of APM_calculate_stats: the average is taken over one value more.
APM_calculate_stats_off_by_one(values) ==
    IF values = <<>>
    THEN [min |-> Float(0), max |-> Float(0), avg |-> Float(0), count |-> 0]
    ELSE [min |-> min(values), max |-> max(values),
          avg |-> FloatDiv(sum(values), Len(values) + 1), count |-> Len(values)]

\* AppPerformanceMonitor._calculate_stats
APM_calculate_stats(values) ==
    IF values = <<>>
    THEN [min |-> Float(0), max |-> Float(0), avg |-> Float(0), count |-> 0]
    ELSE [min |-> min(values), max |-> max(values),
          avg |-> FloatDiv(sum(values), Len(values)), count |-> Len(values)]

\* ReportGenerator._calculate_stats
ReportGenerator_calculate_stats(values) ==
    IF values = <<>>
    THEN [min |-> Float(0), max |-> Float(0), avg |-> Float(0), count |-> 0]
    ELSE [min |-> min(values), max |-> max(values),
          avg |-> FloatDiv(sum(values), Len(values)), count |-> Len(values)]

\* `[d.<field> for d in self.performance_data]`
Column(field) == [k \in 1..Len(performance_data) |-> performance_data[k][field]]

\* Mutant of Positive: every value of the series is kept.
Unfiltered(values) == values

\* `[v for v in values if v > 0]`, the filter of the three series
Positive(values) == SelectSeq(values, LAMBDA v : FloatGt(v, Float(0)))

\* The 'stats' of get_summary and the 'statistics' of _generate_report_data.
SummaryStats ==
    [cpu |-> APM_calculate_stats(Positive(Column("cpu_usage"))),
     memory |-> APM_calculate_stats(Positive(Column("memory_usage"))),
     fps |-> APM_calculate_stats(Positive(Column("fps")))]

ReportStatistics ==
    [cpu |-> ReportGenerator_calculate_stats(Positive(Column("cpu_usage"))),
     memory |-> ReportGenerator_calculate_stats(Positive(Column("memory_usage"))),
     fps |-> ReportGenerator_calculate_stats(Positive(Column("fps")))]

\* The samples of a session whose summary is taken: values the extractors
\* return, 0 among them. An application that is not running has neither a
\* memory reading nor a frame rate.
SummarySamples ==
    {s \in {[cpu_usage |-> Float(c), memory_usage |-> Float(m), fps |-> Float(f),
             temperature |-> Float(30)] : c \in {0, 10, 30}, m \in {0, 120}, f \in {0, 60}} :
        FloatEq(s.memory_usage, Float(0)) => FloatEq(s.fps, Float(0))}

\* AppPerformanceMonitor.get_summary: {} without samples, else the counts
\* and the stats of the three series.
get_summary ==
    /\ returned' =
         <<IF performance_data = <<>>
           THEN [op |-> "summary", empty |-> TRUE]
           ELSE [op |-> "summary", empty |-> FALSE,
                 data_points |-> Len(performance_data),
                 alerts_count |-> Len(alerts), stats |-> SummaryStats]>>
    /\ UNCHANGED <<performance_data, alerts, evaluated, pid, last_cpu_data>>
    /\ UNCHANGED <<is_collecting, collection_thread, data_buffer, max_buffer_size,
                   callbacks, thr, caller, nextId, appendCount,
                   platform, package_name, last_network_data, clock, pair, service_vars>>

\* AppPerformanceMonitor.generate_report up to the report's data: False
\* without samples, else ReportGenerator._generate_report_data over the
\* monitor's samples and alerts.
generate_report ==
    /\ returned' =
         <<IF performance_data = <<>>
           THEN [op |-> "report", empty |-> TRUE]
           ELSE [op |-> "report", empty |-> FALSE,
                 data_points |-> Len(performance_data),
                 alerts_count |-> Len(alerts), stats |-> ReportStatistics]>>
    /\ UNCHANGED <<performance_data, alerts, evaluated, pid, last_cpu_data>>
    /\ UNCHANGED <<is_collecting, collection_thread, data_buffer, max_buffer_size,
                   callbacks, thr, caller, nextId, appendCount,
                   platform, package_name, last_network_data, clock, pair, service_vars>>

\* A session whose ticks deliver samples to the monitor and whose summary
\* and report are taken at any time.
NextSummary ==
    \/ \E data \in SummarySamples : APM_on_data_collected(data)
    \/ get_summary
    \/ generate_report

SpecSummary == InitMonitoring /\ [][NextSummary]_vars

\* ------------------------------------------------------------ frame rate
\* What `dumpsys gfxinfo` can answer: the first token of each non-blank line
\* after 'Total frames rendered:', as the number it parses to (0 stands for
\* a token float() rejects or a time that is not > 0, both skipped), or the
\* command raising.
MaxFrameLines == 2
MaxFpsCalls == 2
FrameTokens == {0, 8, 16, 40}
GfxinfoRaises == <<-1>>
GfxinfoOutputs ==
    UNION {[1..n -> FrameTokens] : n \in 0..MaxFrameLines} \cup {GfxinfoRaises}

\* What the `fps` command of the iOS bridge can answer: the number in front
\* of "fps", or NoFps when the command raises or nothing matches.
NoFps == <<-1, 1>>
IosFpsOutputs == {NoFps, Float(0), Float(30), <<599, 10>>, Float(60), Float(120)}

\* a / b on fractions, b > 0
FloatQuot(a, b) == <<a[1] * b[2], a[2] * b[1]>>

\* The frame times AndroidCollector.collect_fps keeps: those > 0, and no more
\* once 120 are held.
FrameTimes(lines) ==
    LET kept == SelectSeq([k \in 1..Len(lines) |-> Float(lines[k])],
                          LAMBDA v : FloatGt(v, Float(0)))
    IN SubSeq(kept, 1, Min(Len(kept), 120))

\* The value AndroidCollector.collect_fps returns on the lines of gfxinfo:
\* 1000 / the mean of the last 60 frame times, at most 60.0.
AndroidFps(lines) ==
    LET frame_times == FrameTimes(lines)
        recent == LastN(frame_times, 60)
    IN IF frame_times = <<>> THEN Float(0)
       ELSE LET avg_frame_time == FloatDiv(sum(recent), Len(recent))
            IN IF FloatGt(avg_frame_time, Float(0))
               THEN min(<<FloatQuot(Float(1000), avg_frame_time), Float(60)>>)
               ELSE Float(0)

\* AndroidCollector.collect_fps.  Without a package nothing is read.
AndroidCollector_collect_fps(output) ==
    /\ platform = "android"
    /\ Len(returned) < MaxFpsCalls
    /\ returned' = Append(returned,
         [op |-> "fps", platform |-> platform,
          read |-> IF package_name = "" THEN GfxinfoRaises ELSE output,
          value |-> IF package_name = "" \/ output = GfxinfoRaises
                    THEN Float(0) ELSE AndroidFps(output)])
    /\ UNCHANGED <<platform, package_name, pid, last_cpu_data, last_network_data, clock>>
    /\ ExtractorFrame

\* IOSCollector.collect_fps: the number matched is returned as it is.
IOSCollector_collect_fps(output) ==
    /\ platform = "ios"
    /\ Len(returned) < MaxFpsCalls
    /\ returned' = Append(returned,
         [op |-> "fps", platform |-> platform,
          read |-> IF package_name = "" THEN <<NoFps>> ELSE <<output>>,
          value |-> IF package_name = "" \/ output = NoFps THEN Float(0) ELSE output])
    /\ UNCHANGED <<platform, package_name, pid, last_cpu_data, last_network_data, clock>>
    /\ ExtractorFrame

NextFps ==
    \/ \E output \in GfxinfoOutputs : AndroidCollector_collect_fps(output)
    \/ \E output \in IosFpsOutputs : IOSCollector_collect_fps(output)

SpecFps == InitExtract /\ [][NextFps]_vars

\* ------------------------------------------------------------- timestamps
\* `data = PerformanceData()`, the first line of collect_all, as the loop
\* calls it: `self.timestamp = timestamp or time.time()` stamps the new
\* sample with the time of the call; the model keeps the stamp of sample k
\* in returned[k].
AssembleStamped(t) ==
    /\ thr[t].pc = "collect"
    /\ nextId' = nextId + 1
    /\ thr' = [thr EXCEPT ![t].pc = "append", ![t].data = nextId']
    /\ returned' = Append(returned, [op |-> "assemble", timestamp |-> clock])
    /\ UNCHANGED <<is_collecting, data_buffer, appendCount>>
    /\ UNCHANGED <<collection_thread, max_buffer_size, callbacks, caller>>
    /\ UNCHANGED <<platform, package_name, pid, last_cpu_data, last_network_data, clock>>
    /\ UNCHANGED <<monitor_vars, pair, service_vars>>

\* The concurrent control plane, starting loops of interval 1 without a
\* duration, while time.time() moves on, never back.
NextStamp ==
    \/ Tick
    \/ ClockTick
    \/ \E s \in RaceSubscribers \ Registered : add_callback(s)
    \/ \E c \in Callers :
          (is_collecting
             \/ Cardinality(Born) + Cardinality(Constructing) < Cardinality(Callers))
          /\ StartCheck(c, 1, 0)
    \/ StopSetFlag(Control)
    \/ \E c \in Callers : CallStep(c)
    \/ \E c \in Callers : CallerUnwind(c)
    \/ \E t \in Threads : nextId < RaceSamples /\ AssembleStamped(t)
    \/ \E t \in Threads : LoopStep(t)

SpecStamp == Init /\ [][NextStamp]_vars

\* ---------------------------------------------------- failed extractions
\* What the commands of a network extraction can answer: a command raises
\* (transport failure, timeout); the status has no Uid line; the statistics
\* have no row to parse (no row of eight fields on Android, no RX: or TX:
\* line with a number on iOS); or rows with the counters <<rx, tx>>.
NetworkOutputs ==
    {[kind |-> k, net |-> <<0, 0>>] : k \in {"raises", "no_uid", "no_rows"}}
        \cup {[kind |-> "counters", net |-> n] : n \in {<<1024, 0>>, <<4096, 2048>>}}

\* The counters the parsing loops end with: the sums start at 0 (Android,
\* `rx_bytes = tx_bytes = 0`) and the totals start at 0 (iOS, network_data).
ParsedCounters(output) == IF output.kind = "counters" THEN output.net ELSE <<0, 0>>

\* AndroidCollector.collect_network on the answers of its commands.  Without
\* a pid no command is run; without a Uid line the statistics are not read.
AndroidCollector_collect_network_output(out, output) ==
    /\ platform = "android"
    /\ Len(returned) < MaxExtractions
    /\ pid' = PidAfterLookup(out)
    /\ IF pid' # 0 /\ output.kind \in {"no_rows", "counters"}
       THEN LET net == ParsedCounters(output)
            IN /\ last_network_data' = [rx_bytes |-> net[1], tx_bytes |-> net[2],
                                        timestamp |-> clock]
               /\ returned' = Append(returned,
                    [op |-> "network", at |-> clock, kind |-> output.kind,
                     read |-> net, value |-> AndroidRates(net)])
       ELSE /\ last_network_data' = last_network_data
            /\ returned' = Append(returned,
                 [op |-> "network", at |-> clock,
                  kind |-> IF pid' # 0 THEN output.kind ELSE "not_run",
                  read |-> <<0, 0>>, value |-> NeutralNetwork])
    /\ UNCHANGED <<platform, package_name, last_cpu_data, clock>>
    /\ ExtractorFrame

\* IOSCollector.collect_network on the answer of network_info: there is no
\* Uid to look up, and whatever the loop has parsed is stored.
IOSCollector_collect_network_output(output) ==
    /\ platform = "ios"
    /\ output.kind # "no_uid"
    /\ Len(returned) < MaxExtractions
    /\ IF output.kind # "raises"
       THEN LET net == ParsedCounters(output)
            IN /\ last_network_data' = [rx_total |-> FloatDiv(Float(net[1]), 1024),
                                        tx_total |-> FloatDiv(Float(net[2]), 1024),
                                        timestamp |-> clock]
               /\ returned' = Append(returned,
                    [op |-> "network", at |-> clock, kind |-> output.kind,
                     read |-> net, value |-> IOSNetwork(net)])
       ELSE /\ last_network_data' = last_network_data
            /\ returned' = Append(returned,
                 [op |-> "network", at |-> clock, kind |-> "raises",
                  read |-> <<0, 0>>, value |-> NeutralNetwork])
    /\ UNCHANGED <<platform, package_name, pid, last_cpu_data, clock>>
    /\ ExtractorFrame

\* The rate extractions of a collector, failing or not, while time passes.
\* For the CPU counters a failure of either kind is the reading NoCounters:
\* the command raises, or no line starts with 'cpu '.
NextBaseline ==
    \/ ClockTick
    \/ \E out \in PidofOutputs, stat \in {<<100, 10>>, <<200, 20>>, NoCounters} :
          AndroidCollector_collect_cpu(out, NoPercentage, stat)
    \/ \E out \in PidofOutputs, output \in NetworkOutputs :
          AndroidCollector_collect_network_output(out, output)
    \/ \E output \in NetworkOutputs : IOSCollector_collect_network_output(output)

SpecBaseline == InitExtract /\ [][NextBaseline]_vars

\* ------------------------------------------------------ a monitor's session
\* The subscriber AppPerformanceMonitor.collect_all registers.
OnDataCollected == "_on_data_collected"

\* Mutant of Registration: the subscriber is added only when it is not in
\* the list yet.
RegistrationOnce(list) ==
    IF \E k \in 1..Len(list) : list[k] = OnDataCollected THEN list
    ELSE Append(list, OnDataCollected)

\* `self.collector.add_callback(self._on_data_collected)` in collect_all: the
\* list of subscribers after it.
Registration(list) == Append(list, OnDataCollected)

\* Mutant of LoopDuration: a duration of 0 falls back to one second.
LoopDurationDefault(d) == IF d > 0 THEN d ELSE 1

\* `duration = self.duration if self.duration > 0 else None`: the duration
\* collect_all hands to the scheduler (0 is None).
LoopDuration(d) == IF d > 0 THEN d ELSE 0

\* The durations a monitor is constructed with.
Durations == {0, 2}

\* AppPerformanceMonitor.collect_all up to its call of start: the subscriber
\* is registered, `self.is_monitoring = True`.
APM_collect_all ==
    /\ apm.pc = "idle"
    /\ Len(callbacks) < MaxCallbacks
    /\ callbacks' = Registration(callbacks)
    /\ apm' = [apm EXCEPT !.is_monitoring = TRUE, !.pc = "start"]
    /\ UNCHANGED <<is_collecting, collection_thread, data_buffer, max_buffer_size,
                   thr, caller, nextId, appendCount>>
    /\ UNCHANGED <<extractor_vars, monitor_vars, pair, monitors>>

\* `self.collector.start_continuous_collection(interval, duration)` as
\* collect_all calls it, no other thread calling start: a no-op when the flag
\* is set, else the flag is set and a new Thread runs the loop.  Then
\* collect_all sleeps for the duration, or waits for is_monitoring to clear.
APM_start ==
    /\ apm.pc = "start"
    /\ Unborn # {}
    /\ IF is_collecting
       THEN UNCHANGED <<is_collecting, collection_thread, thr>>
       ELSE LET t == CHOOSE u \in Unborn : \A v \in Unborn : u <= v
            IN /\ is_collecting' = TRUE
               /\ collection_thread' = t
               /\ thr' = [thr EXCEPT ![t] = [NoThread EXCEPT
                                               !.pc = "started", !.interval = 1,
                                               !.duration = LoopDuration(apm.duration)]]
    /\ apm' = [apm EXCEPT !.pc = IF LoopDuration(apm.duration) # 0 THEN "sleep" ELSE "wait",
                          !.remaining = LoopDuration(apm.duration)]
    /\ UNCHANGED <<data_buffer, max_buffer_size, callbacks, caller, nextId, appendCount>>
    /\ UNCHANGED <<extractor_vars, monitor_vars, pair, monitors>>

\* One unit of time passes for the loops and for the sleep of collect_all.
SessionTick ==
    /\ thr' = [t \in Threads |->
                 [thr[t] EXCEPT
                    !.elapsed = IF thr[t].pc \in LoopPcs \ {"started"}
                                THEN Min(@ + 1, thr[t].duration) ELSE @,
                    !.remaining = Max(@ - 1, 0)]]
    /\ apm' = [apm EXCEPT !.remaining = Max(@ - 1, 0)]
    /\ UNCHANGED <<is_collecting, collection_thread, data_buffer, max_buffer_size,
                   callbacks, caller, nextId, appendCount>>
    /\ UNCHANGED <<extractor_vars, monitor_vars, pair, monitors>>

\* AppPerformanceMonitor.stop_monitoring up to the join, called by collect_all
\* after `time.sleep(duration)` (own) or by another thread: nothing when
\* is_monitoring is clear, else both flags are cleared.
APM_stop_monitoring(own) ==
    /\ IF own THEN apm.pc = "sleep" /\ apm.remaining = 0
              ELSE apm.pc \in {"wait", "idle"} /\ caller["b"].pc = "idle"
    /\ IF apm.is_monitoring
       THEN /\ is_collecting' = FALSE
            /\ apm' = [apm EXCEPT !.is_monitoring = FALSE,
                                  !.pc = IF own THEN "join" ELSE @]
            /\ caller' = IF own THEN caller
                         ELSE [caller EXCEPT !["b"].pc = "stop_join"]
       ELSE /\ apm' = [apm EXCEPT !.pc = IF own THEN "idle" ELSE @]
            /\ UNCHANGED <<is_collecting, caller>>
    /\ UNCHANGED <<collection_thread, data_buffer, max_buffer_size, callbacks, thr,
                   nextId, appendCount>>
    /\ UNCHANGED <<extractor_vars, monitor_vars, pair, monitors>>

\* `self.collection_thread.join()` returns in stop_monitoring as collect_all
\* called it, and collect_all returns.
APM_join_return ==
    /\ apm.pc = "join"
    /\ collection_thread # 0 => thr[collection_thread].pc = "done"
    /\ apm' = [apm EXCEPT !.pc = "idle"]
    /\ UNCHANGED <<is_collecting, collection_thread, data_buffer, max_buffer_size,
                   callbacks, thr, caller, nextId, appendCount>>
    /\ UNCHANGED <<extractor_vars, monitor_vars, pair, monitors>>

\* `while self.is_monitoring: time.sleep(1)` ends and collect_all returns.
APM_wait_return ==
    /\ apm.pc = "wait"
    /\ ~apm.is_monitoring
    /\ apm' = [apm EXCEPT !.pc = "idle"]
    /\ UNCHANGED <<is_collecting, collection_thread, data_buffer, max_buffer_size,
                   callbacks, thr, caller, nextId, appendCount>>
    /\ UNCHANGED <<extractor_vars, monitor_vars, pair, monitors>>

\* `callback(data)` of the loop with the monitor's subscriber in the list:
\* _on_data_collected appends the sample to performance_data.
SessionDispatch(t) ==
    /\ thr[t].pc = "dispatch"
    /\ thr[t].idx <= Len(callbacks)
    /\ thr' = [thr EXCEPT ![t] = AfterCallback(t)]
    /\ performance_data' = IF callbacks[thr[t].idx] = OnDataCollected
                           THEN Append(performance_data, thr[t].data)
                           ELSE performance_data
    /\ UNCHANGED <<is_collecting, collection_thread, data_buffer, max_buffer_size,
                   callbacks, caller, nextId, appendCount>>
    /\ UNCHANGED <<extractor_vars, alerts, evaluated, pair, service_vars>>

\* A monitor of either kind of duration, nothing started yet.
InitSession ==
    /\ InitDataCollector
    /\ InitExtractor("android", "app")
    /\ InitMonitor
    /\ pair = InitTwo
    /\ monitors = NoMonitors
    /\ \E d \in Durations : apm = NewMonitor(d)

\* The thread that calls collect_all, again once it has returned; a second
\* thread that calls stop_monitoring; the loop.
NextSession ==
    \/ SessionTick
    \/ APM_collect_all
    \/ APM_start
    \/ \E own \in BOOLEAN : APM_stop_monitoring(own)
    \/ APM_join_return
    \/ APM_wait_return
    \/ StopJoin("b")
    \/ StopJoinReturn("b")
    \/ \E t \in Threads : LoopBegin(t)
    \/ \E t \in Threads : LoopWhile(t)
    \/ \E t \in Threads : LoopCollect(t)
    \/ \E t \in Threads : LoopAppend(t)
    \/ \E t \in Threads : LoopEvictCheck(t)
    \/ \E t \in Threads : LoopEvictPop(t)
    \/ \E t \in Threads : SessionDispatch(t)
    \/ \E t \in Threads : LoopDispatchEnd(t)
    \/ \E t \in Threads : LoopWake(t)
    \/ \E t \in Threads : LoopExit(t)

SpecSession == InitSession /\ [][NextSession]_vars

\* ------------------------------------------------------ monitor registry
\* PerformanceService (apm.py:517-589), the process-wide registry behind the
\* routes /monitor/start and /monitor/stop.  The web server handles requests
\* on threads, so the statements of a call are steps of a caller thread.
\* monitors.registered maps an id to the AppPerformanceMonitor object (a
\* number) stored under it; monitors.call[c] is the call of caller c.

MonitorIds == {"m1", "m2"}
MaxRegistryCalls == 4

\* `monitor_id in self.monitors` (apm.py:534, 557)
AlreadyExistsNever(id) == FALSE
AlreadyExists(id) == id \in DOMAIN monitors.registered

RegistryFrame ==
    UNCHANGED <<is_collecting, collection_thread, data_buffer, max_buffer_size,
                callbacks, thr, caller, nextId, appendCount,
                extractor_vars, monitor_vars, pair, apm>>

\* The call of caller c moves to position pc, or returns (pc "idle") result.
CallAt(c, op, id, pc, obj, result) ==
    [monitors.call EXCEPT ![c] =
        [op |-> op, id |-> id, pc |-> pc, obj |-> obj, result |-> result,
         n |-> IF monitors.call[c].pc = "idle" THEN monitors.calls + 1
               ELSE monitors.call[c].n,
         reuse |-> IF monitors.call[c].pc = "idle" THEN id \in monitors.released
                   ELSE monitors.call[c].reuse]]

\* PerformanceService.start_monitor up to the membership test: an id that
\* is registered prints "already exists" and returns False (534-536).
start_monitor(c, id) ==
    /\ monitors.call[c].pc = "idle"
    /\ monitors.calls < MaxRegistryCalls
    /\ monitors' = [monitors EXCEPT
            !.calls = @ + 1,
            !.call = IF AlreadyExists(id)
                     THEN CallAt(c, "start_monitor", id, "idle", 0, FALSE)
                     ELSE CallAt(c, "start_monitor", id, "construct", 0, FALSE)]
    /\ RegistryFrame

\* `monitor = AppPerformanceMonitor(...)` (538-543): _initialize raises when
\* no device is found or the connection fails (apm.py:74-109), and the
\* handler at 551-553 returns False.
start_monitor_construct(c, ok) ==
    /\ monitors.call[c].pc = "construct"
    /\ monitors' = [monitors EXCEPT
            !.created = IF ok THEN @ + 1 ELSE @,
            !.call = IF ok
                     THEN CallAt(c, "start_monitor", monitors.call[c].id, "insert",
                                 monitors.created + 1, FALSE)
                     ELSE CallAt(c, "start_monitor", monitors.call[c].id, "idle",
                                 0, FALSE)]
    /\ RegistryFrame

\* `self.monitors[monitor_id] = monitor; self.is_running = True; return True`
\* (545-549)
start_monitor_insert(c) ==
    /\ monitors.call[c].pc = "insert"
    /\ LET id == monitors.call[c].id
           obj == monitors.call[c].obj
       IN monitors' = [monitors EXCEPT
            !.registered = [x \in DOMAIN @ \cup {id} |->
                                IF x = id THEN obj ELSE @[x]],
            !.is_running = TRUE,
            !.call = CallAt(c, "start_monitor", id, "idle", obj, TRUE)]
    /\ RegistryFrame

\* PerformanceService.stop_monitor up to the membership test: an id that is
\* not registered prints "not found" and returns False (557-559).
stop_monitor(c, id) ==
    /\ monitors.call[c].pc = "idle"
    /\ monitors.calls < MaxRegistryCalls
    /\ monitors' = [monitors EXCEPT
            !.calls = @ + 1,
            !.call = IF AlreadyExists(id)
                     THEN CallAt(c, "stop_monitor", id, "lookup", 0, FALSE)
                     ELSE CallAt(c, "stop_monitor", id, "idle", 0, FALSE)]
    /\ RegistryFrame

\* `monitor = self.monitors[monitor_id]; monitor.stop_monitoring()` (562-563):
\* the lookup raises KeyError when another call has deleted the id, and the
\* handler at 572-574 returns False.  A registered monitor was never handed
\* to collect_all, so stop_monitoring returns at `if not self.is_monitoring`
\* (apm.py:336-337).
stop_monitor_lookup(c) ==
    /\ monitors.call[c].pc = "lookup"
    /\ LET id == monitors.call[c].id
       IN monitors' = [monitors EXCEPT
            !.call = IF AlreadyExists(id)
                     THEN CallAt(c, "stop_monitor", id, "del",
                                 monitors.registered[id], FALSE)
                     ELSE CallAt(c, "stop_monitor", id, "idle", 0, FALSE)]
    /\ RegistryFrame

\* `del self.monitors[monitor_id]`, `if not self.monitors: self.is_running =
\* False`, `return True` (564-570); KeyError returns False (572-574).
stop_monitor_del(c) ==
    /\ monitors.call[c].pc = "del"
    /\ LET id == monitors.call[c].id
           obj == monitors.call[c].obj
           rest == DOMAIN monitors.registered \ {id}
       IN monitors' =
            IF AlreadyExists(id)
            THEN [monitors EXCEPT
                    !.registered = [x \in rest |-> @[x]],
                    !.is_running = IF rest = {} THEN FALSE ELSE @,
                    !.released = @ \cup {id},
                    !.call = CallAt(c, "stop_monitor", id, "idle", obj, TRUE)]
            ELSE [monitors EXCEPT
                    !.call = CallAt(c, "stop_monitor", id, "idle", obj, FALSE)]
    /\ RegistryFrame

NextRegistry ==
    \/ \E c \in Callers, id \in MonitorIds : start_monitor(c, id)
    \/ \E c \in Callers, ok \in BOOLEAN : start_monitor_construct(c, ok)
    \/ \E c \in Callers : start_monitor_insert(c)
    \/ \E c \in Callers, id \in MonitorIds : stop_monitor(c, id)
    \/ \E c \in Callers : stop_monitor_lookup(c)
    \/ \E c \in Callers : stop_monitor_del(c)

SpecRegistry == Init /\ [][NextRegistry]_vars


\* ----------------------------------------------------------- exit signal
\* The process of main.py: main installs signal_handler for SIGINT and
\* SIGTERM (main.py:73-74), then serves the web application or runs one
\* command-line monitor.  apm.pc is the position of the main thread: "serve"
\* inside app.run, the positions of collect_all in monitor mode, "exited"
\* once SystemExit has left it.

\* run_web_server (main.py:51-69): the main thread serves requests.
ServeMode == [NewMonitor(0) EXCEPT !.pc = "serve"]

\* run_cli_monitor (main.py:22-48): a monitor is constructed, held in a
\* local variable, and collect_all is called on it once.
run_cli_monitor ==
    /\ Born = {}
    /\ APM_collect_all

\* PerformanceService.stop_all (apm.py:576-581): stop_monitor of every
\* registered id; no registered monitor has is_monitoring set, so each
\* stop_monitoring returns at once and the id is deleted.
stop_all(m) ==
    [m EXCEPT !.registered = <<>>,
              !.is_running = FALSE,
              !.released = @ \cup DOMAIN m.registered]

\* signal_handler (main.py:15-19) on the main thread, wherever it is:
\* `performance_service.stop_all()`, then `sys.exit(0)`.  SystemExit is no
\* KeyboardInterrupt and no Exception, so it leaves collect_all through the
\* `finally` (apm.py:319-331) and run_cli_monitor (main.py:44-48) without
\* stop_monitoring being called; the interpreter then waits for the loop's
\* Thread, which is not a daemon (collector.py:559-563).
signal_handler ==
    /\ apm.pc \in {"serve", "start", "sleep", "wait", "join"}
    /\ monitors' = stop_all(monitors)
    /\ apm' = [apm EXCEPT !.pc = "exited"]
    /\ UNCHANGED <<is_collecting, collection_thread, data_buffer, max_buffer_size,
                   callbacks, thr, caller, nextId, appendCount>>
    /\ UNCHANGED <<extractor_vars, monitor_vars, pair>>

\* `callback(data)` in a run without end: performance_data is kept to its
\* last MaxSamples entries.
SignalDispatch(t) ==
    /\ thr[t].pc = "dispatch"
    /\ thr[t].idx <= Len(callbacks)
    /\ thr' = [thr EXCEPT ![t] = AfterCallback(t)]
    /\ performance_data' =
          IF callbacks[thr[t].idx] = OnDataCollected
          THEN LastN(Append(performance_data, thr[t].data), MaxSamples)
          ELSE performance_data
    /\ UNCHANGED <<is_collecting, collection_thread, data_buffer, max_buffer_size,
                   callbacks, caller, nextId, appendCount>>
    /\ UNCHANGED <<extractor_vars, alerts, evaluated, pair, service_vars>>

\* A request of the web mode reaches the registry.
Request(c) ==
    \/ \E id \in MonitorIds : start_monitor(c, id)
    \/ \E ok \in BOOLEAN : start_monitor_construct(c, ok)
    \/ start_monitor_insert(c)
    \/ \E id \in MonitorIds : stop_monitor(c, id)
    \/ stop_monitor_lookup(c)
    \/ stop_monitor_del(c)

\* The steps of the main thread inside collect_all; nothing in the process
\* clears is_monitoring while it waits in `while self.is_monitoring`.
MainStep ==
    \/ APM_start
    \/ APM_stop_monitoring(TRUE)
    \/ APM_join_return

\* The steps of the loop's Thread, its samples never running out.
SignalLoopStep(t) ==
    \/ LoopBegin(t)
    \/ LoopWhile(t)
    \/ (nextId < RaceSamples /\ LoopCollect(t))
    \/ LoopCollectSat(t)
    \/ LoopAppend(t)
    \/ LoopEvictCheck(t)
    \/ LoopEvictPop(t)
    \/ SignalDispatch(t)
    \/ LoopDispatchEnd(t)
    \/ LoopWake(t)
    \/ LoopExit(t)

InitSignal ==
    /\ InitDataCollector
    /\ InitExtractor("android", "app")
    /\ InitMonitor
    /\ pair = InitTwo
    /\ monitors = NoMonitors
    /\ \/ \E d \in Durations : apm = NewMonitor(d)
       \/ apm = ServeMode

NextSignal ==
    \/ SessionTick
    \/ run_cli_monitor
    \/ APM_start
    \/ APM_stop_monitoring(TRUE)
    \/ APM_join_return
    \/ signal_handler
    \/ \E c \in Callers : apm.pc = "serve" /\ Request(c)
    \/ \E t \in Threads : SignalLoopStep(t)

\* Time passes, the main thread and the loop's Thread are scheduled; nothing
\* obliges a signal or a request to arrive.
SignalFairness ==
    /\ WF_vars(SessionTick)
    /\ WF_vars(MainStep)
    /\ \A t \in Threads : WF_vars(SignalLoopStep(t))

SpecSignal == InitSignal /\ [][NextSignal]_vars /\ SignalFairness


\* ------------------------------------------- unsubscribing from a handler
\* A subscriber may call remove_callback from inside its handler, on the
\* loop's Thread, while the `for` of the dispatch is running.  Subscribers
\* are registered once each and only while no loop is alive, so that during
\* a dispatch the list changes through the handlers' own calls only.

NoTarget == "none"                   \* the handler removes nothing

\* `if callback in self.callbacks: self.callbacks.remove(callback)`: the
\* first occurrence is removed (collector.py:503-504).
ListRemove(list, s) ==
    IF \E j \in 1..Len(list) : list[j] = s
    THEN LET k == CHOOSE j \in 1..Len(list) :
                      /\ list[j] = s
                      /\ \A i \in 1..(j - 1) : list[i] # s
         IN SubSeq(list, 1, k - 1) \o SubSeq(list, k + 1, Len(list))
    ELSE list

\* add_callback before the collector is started.
SubscribeBeforeStart(s) ==
    /\ s \notin Registered
    /\ \A t \in Threads : ~Alive(t)
    /\ add_callback(s)

\* `callback(data)` at the iterator's index, the handler calling
\* remove_callback(target) before it returns; the `for` then goes on with the
\* next index of the live list.  The call is recorded with the subscriber
\* it has removed.
UnsubscribingDispatch(t, target) ==
    /\ thr[t].pc = "dispatch"
    /\ thr[t].idx <= Len(callbacks)
    /\ callbacks' = ListRemove(callbacks, target)
    /\ thr' = [thr EXCEPT
                 ![t].called = Append(@, <<callbacks[thr[t].idx], thr[t].data,
                                           IF target \in Registered THEN target
                                           ELSE NoTarget>>),
                 ![t].idx = @ + 1]
    /\ UNCHANGED <<is_collecting, collection_thread, data_buffer, max_buffer_size,
                   caller, nextId, appendCount>>
    /\ UNCHANGED outside_vars

NextUnsubscribe ==
    \/ Tick
    \/ \E s \in Subscribers : SubscribeBeforeStart(s)
    \/ StartCheck(Control, 1, 0)
    \/ StopSetFlag(Control)
    \/ CallStep(Control)
    \/ \E t \in Threads : LoopCollect(t)
    \/ \E t \in Threads : LoopBegin(t)
    \/ \E t \in Threads : LoopWhile(t)
    \/ \E t \in Threads : LoopAppend(t)
    \/ \E t \in Threads : LoopEvictCheck(t)
    \/ \E t \in Threads : LoopEvictPop(t)
    \/ \E t \in Threads, target \in Subscribers \cup {NoTarget} :
          UnsubscribingDispatch(t, target)
    \/ \E t \in Threads : LoopDispatchEnd(t)
    \/ \E t \in Threads : LoopWake(t)
    \/ \E t \in Threads : LoopExit(t)

SpecUnsubscribe == Init /\ [][NextUnsubscribe]_vars


\* =============================================================== claims
\* The scheduler states of the spec, read off the collector.
Running == is_collecting
Idle == ~is_collecting /\ \A t \in Threads : thr[t].pc \in {"unborn", "done"}

\* The ids of the samples assembled so far, in assembly order.
Assembled == [k \in 1..nextId |-> k]

\* No loop is between the append of its sample and the end of its eviction.
BetweenTicks == \A t \in Threads : thr[t].pc \notin {"append", "evict", "pop"}

\* C1: in every reachable state, also those a concurrent reader sees while a
\* tick is in flight, the buffer holds at most max_buffer_size samples.
C1_BufferWithinCapacity == Len(data_buffer) <= max_buffer_size

\* C2: whenever no tick is between its append and its eviction, the buffer is
\* the max_buffer_size most recently assembled samples, in assembly order.
C2_BufferHoldsMostRecent ==
    BetweenTicks => data_buffer = LastN(Assembled, max_buffer_size)

\* Every assembled sample is appended exactly once from the append step of
\* its tick on: none is lost and none is appended twice.
C3_AppendedOnce ==
    \A k \in 1..MaxSamples :
        appendCount[k] =
            IF k <= nextId /\ ~\E t \in Threads : thr[t].pc = "append" /\ thr[t].data = k
            THEN 1 ELSE 0

\* Two ticks in flight never hold the same sample.
C3_OneSamplePerTick ==
    \A t, u \in Threads :
        (t # u /\ thr[t].data # 0) => thr[t].data # thr[u].data

\* The invocations of subscriber s made so far in the tick of Thread t.
Calls(t, s) == {k \in 1..Len(thr[t].called) : thr[t].called[k][1] = s}

\* A tick that has appended its sample goes on to the dispatch, and the
\* dispatch ends, in the sleep, with every subscriber of the list invoked
\* exactly once with the tick's sample, in the order of the list.
C3_DispatchComplete ==
    \A t \in Threads :
        /\ (thr[t].pc = "pop" /\ thr'[t].pc # "pop") => thr'[t].pc = "dispatch"
        /\ (thr[t].pc = "dispatch" /\ thr'[t].pc # "dispatch") =>
              /\ thr'[t].pc = "sleeping"
              /\ \A k \in 1..Len(thr[t].called) : thr[t].called[k][2] = thr[t].data
              /\ \A s \in Registered : Cardinality(Calls(t, s)) = 1
              /\ \A i, j \in 1..Len(callbacks) :
                    i < j => \A a \in Calls(t, callbacks[i]), b \in Calls(t, callbacks[j]) :
                                a < b

\* C3: every tick assembles one sample, appends it exactly once and then
\* invokes every registered subscriber exactly once with it, in registration
\* order; over starts, stops and duration expiries no assembled sample is lost
\* and none is appended or delivered twice.
C3_TickDeliversOnce ==
    /\ [](C3_AppendedOnce /\ C3_OneSamplePerTick)
    /\ [][C3_DispatchComplete]_vars

\* C4: at most one tick loop of the collector is executing at any time, under
\* every interleaving of start and stop calls of concurrent callers.
C4_AtMostOneLoop == Cardinality({t \in Threads : Alive(t)}) <= 1

\* A caller outside any call never gets past the check while the flag is
\* set, and the `return` of the check changes nothing of the collector.
C5_NoopStartStep ==
    \A c \in Callers :
        /\ (Running /\ caller[c].pc = "idle") => caller'[c].pc # "start_set"
        /\ (caller[c].pc = "start_return" /\ caller'[c].pc # "start_return") =>
              /\ caller'[c].pc = "idle"
              /\ UNCHANGED <<is_collecting, collection_thread, data_buffer, callbacks, thr>>

\* While the flag is set and no start call that got past the check is under
\* way, no Thread is created and no loop's interval or duration changes.
C5_RunningLoopKeepsArgs ==
    (Running /\ \A c \in Callers : ~InStart(c)) =>
        /\ collection_thread' = collection_thread
        /\ \A t \in Threads :
              /\ thr[t].pc = "unborn" => thr'[t].pc = "unborn"
              /\ (Alive(t) /\ thr'[t].pc \in LoopPcs) =>
                    /\ thr'[t].interval = thr[t].interval
                    /\ thr'[t].duration = thr[t].duration

\* C5: start_continuous_collection called while the scheduler is Running
\* (is_collecting set) changes nothing: no second loop is created and the
\* interval and duration of the running loop stay as the first start gave them.
C5_StartWhileRunningIsNoop == [][C5_NoopStartStep /\ C5_RunningLoopKeepsArgs]_vars

\* C5 witness: a start call has found the flag set while a loop is in a tick.
C5_Witness ==
    \E c \in Callers, t \in Threads :
        caller[c].pc = "start_return" /\ Running /\ thr[t].pc = "dispatch"

\* The two steps of a stop call, taken while the scheduler is Idle: the flag
\* write, and the join, which returns at once and does not raise.
C6_IdleStopStep ==
    \A c \in Callers :
        /\ (Idle /\ caller[c].pc = "idle"
              /\ caller'[c].pc \in {"stop_join", "stop_wait", "raised"}) =>
              /\ caller'[c].pc = "stop_join"
              /\ UNCHANGED <<is_collecting, collection_thread, data_buffer, callbacks, thr>>
        /\ (Idle /\ caller[c].pc = "stop_join" /\ caller'[c].pc # "stop_join") =>
              /\ caller'[c].pc = "idle"
              /\ UNCHANGED <<is_collecting, collection_thread, data_buffer, callbacks, thr>>

\* C6: stop_continuous_collection called while the scheduler is Idle (never
\* started, already stopped, or ended by duration expiry) is a no-op: it does
\* not raise and leaves the scheduler state, the buffer and the subscriber
\* list unchanged.
C6_StopWhileIdleIsNoop == [][C6_IdleStopStep]_vars

\* C6 witness: stop is under way on a scheduler that ran, ended, and still
\* holds samples and a subscriber.
C6_Witness ==
    \E c \in Callers :
        /\ Idle
        /\ caller[c].pc = "stop_join"
        /\ collection_thread # 0
        /\ data_buffer # <<>>
        /\ callbacks # <<>>

\* The return of a stop() that was called with the flag set and no start call
\* under way, and that no start call has overlapped since.
C7_StopReturnStep ==
    \A c \in Callers :
        (InStop(c) /\ caller[c].stopped = "clean" /\ caller'[c].pc = "idle") =>
            /\ ~is_collecting'
            /\ \A t \in Threads : thr'[t].pc \notin LoopPcs

\* C7: once a stop() called on a Running scheduler has returned, and until the
\* next start, the scheduler is Idle: the flag is clear and no loop is left
\* that could still append or deliver a sample.
C7_IdleAfterStopReturns == [][C7_StopReturnStep]_vars

\* C8, as claimed: the flag is also observed during the sleep, so a loop that
\* is asleep when stop() has cleared the flag and waits for it can leave its
\* sleep at once, whatever is left of the interval.
C8_StopInterruptsSleep ==
    \A c \in Callers, t \in Threads :
        (caller[c].pc = "stop_wait" /\ caller[c].target = t
           /\ ~is_collecting /\ thr[t].pc = "sleeping") => CanLeaveSleep(t)

\* A loop leaves its sleep only when the whole interval has passed, for the
\* top of the loop; there a clear flag sends it to the exit with no sample
\* assembled.
C8_LoopStep ==
    \A t \in Threads :
        /\ (thr[t].pc = "sleeping" /\ thr'[t].pc # "sleeping") =>
              /\ thr[t].remaining = 0
              /\ thr'[t].pc = "while"
        /\ (thr[t].pc = "while" /\ thr'[t].pc # "while" /\ ~is_collecting) =>
              /\ thr'[t].pc = "exit"
              /\ nextId' = nextId

\* C8, amended: the stop flag is observed at the top of each tick only, not
\* during the sleep. A loop that is asleep when stop() is called stays asleep
\* until the interval has passed; it then reads the flag and, finding it
\* clear, ends without another sample.
C8_FlagReadAtTopOfTickOnly == [][C8_LoopStep]_vars

\* C8 witness: stop() waits for a loop that still has part of its sleep left.
C8_Witness ==
    \E c \in Callers, t \in Threads :
        /\ caller[c].pc = "stop_wait" /\ caller[c].target = t
        /\ ~is_collecting
        /\ thr[t].pc = "sleeping" /\ thr[t].remaining > 0

\* A loop with duration D > 0 and interval I has appended at most ceil(D/I)+1
\* samples.
C9_SampleBound ==
    \A t \in Threads :
        thr[t].duration > 0 =>
            thr[t].count <= CeilDiv(thr[t].duration, thr[t].interval) + 1

\* The first top-of-tick check at which the elapsed time has reached D sends
\* the loop to the exit with no sample assembled or appended; the exit clears
\* the flag and ends the Thread, which then does nothing more.
C9_ExpiryStep ==
    \A t \in Threads :
        /\ (thr[t].pc = "while" /\ thr'[t].pc # "while" /\ Expired(t)) =>
              /\ thr'[t].pc = "exit"
              /\ UNCHANGED <<nextId, data_buffer, appendCount>>
        /\ (thr[t].pc = "exit" /\ thr'[t].pc # "exit") =>
              /\ thr'[t].pc = "done"
              /\ ~is_collecting'
              /\ UNCHANGED <<nextId, data_buffer, appendCount>>
        /\ thr[t].pc = "done" => thr'[t] = thr[t]

\* C9: a run started with duration D > 0 and interval I appends at most
\* ceil(D/I)+1 samples; at the first tick boundary with elapsed time >= D the
\* scheduler becomes Idle and the run assembles, appends and delivers nothing
\* from then on.
C9_BoundedRunEnds == []C9_SampleBound /\ [][C9_ExpiryStep]_vars

\* C9 witness: a run of duration 3 and interval 2 has appended two samples and
\* left the loop on expiry, the flag still set and no stop() called.
C9_Witness ==
    \E t \in Threads :
        /\ thr[t].pc = "exit"
        /\ thr[t].duration = 3 /\ thr[t].interval = 2
        /\ thr[t].count = 2
        /\ is_collecting

\* A loop started with a duration D > 0 ends in the end, stop() or no stop().
C10_BoundedRunEnds ==
    \A t \in Threads : (Alive(t) /\ thr[t].duration > 0) ~> ~Alive(t)

\* A stop() called with the flag set and no start call under way returns in
\* the end.
C10_StopReturns ==
    \A c \in Callers :
        (InStop(c) /\ caller[c].stopped \in {"clean", "overlapped"}) ~> ~InStop(c)

\* C10: every gateway command and subscriber call returning, a run started
\* with a duration D > 0 eventually becomes Idle without any stop(), and every
\* stop() called on a Running scheduler eventually returns.
C10_RunsAndStopsEnd == C10_BoundedRunEnds /\ C10_StopReturns

\* A start call made while the scheduler is Idle is not a no-op; a start call
\* that got past its check starts a new Thread, does not raise and leaves the
\* flag set; and a loop that finds the flag set and its duration not yet over
\* goes on to assemble a sample.
C11_RestartStep ==
    /\ \A c \in Callers :
          /\ (Idle /\ caller[c].pc = "idle"
                /\ caller'[c].pc \in {"start_return", "start_set"}) =>
                caller'[c].pc = "start_set"
          /\ (caller[c].pc = "start_start" /\ caller'[c].pc # "start_start") =>
                /\ caller'[c].pc = "idle"
                /\ collection_thread # 0
                /\ thr[collection_thread].pc = "created"
                /\ thr'[collection_thread].pc = "started"
                /\ is_collecting'
    /\ \A t \in Threads :
          /\ (thr[t].pc = "while" /\ thr'[t].pc # "while"
                /\ is_collecting /\ ~Expired(t)) => thr'[t].pc = "collect"
          /\ (thr[t].pc = "exit" /\ thr'[t].pc # "exit") => Idle'

\* C11: the scheduler is restartable: when a run has ended, by stop() or by
\* duration expiry, the scheduler is Idle, and a start() made then begins a
\* new run, on a new Thread, that assembles samples; this holds over every
\* number of start/stop cycles.
C11_Restartable == [][C11_RestartStep]_vars

\* C11 witness: after two earlier runs have ended, the third run, one with a
\* duration, has appended a sample.
C11_Witness ==
    /\ thr[1].pc = "done" /\ thr[2].pc = "done"
    /\ thr[3].pc = "evict"
    /\ thr[3].duration > 0
    /\ is_collecting

\* The extraction a step makes, if it makes one.
Extracting(op) ==
    /\ Len(returned') = Len(returned) + 1
    /\ returned'[Len(returned')].op = op
Extraction == returned'[Len(returned')]

\* The extractions made so far that read the counters of metric op through
\* the branch that keeps a baseline, oldest first, as indexes of returned.
CounterReads(op) ==
    {k \in 1..Len(returned) :
        /\ returned[k].op = op
        /\ (op = "cpu" => returned[k].branch = "global" /\ platform = "android")
        /\ returned[k].read # NoCounters}
LastRead(op) == returned[CHOOSE k \in CounterReads(op) : \A m \in CounterReads(op) : m <= k]

\* An extraction of a rate metric with no successful extraction before it
\* returns the neutral rate, and records what it read as the baseline.
C12_FirstIsNeutral ==
    /\ (Extracting("network") /\ CounterReads("network") = {}) =>
          /\ FloatEq(Extraction.value.rx_speed, Float(0))
          /\ FloatEq(Extraction.value.tx_speed, Float(0))
          /\ Extraction.read # NoCounters =>
                /\ last_network_data' # <<>>
                /\ last_network_data'.timestamp = Extraction.at
    /\ (Extracting("cpu") /\ platform = "android" /\ Extraction.branch = "global"
          /\ CounterReads("cpu") = {}) =>
          /\ FloatEq(Extraction.value, Float(0))
          /\ Extraction.read # NoCounters => last_cpu_data' = Extraction.read

\* The second of two consecutive successful network extractions, (c1, t1) then
\* (c2, t2) with t2 > t1 and c2 >= c1 in bytes, reports (c2 - c1) / (t2 - t1)
\* in KB/s, for rx and for tx.
C12_RateOfTwoReads ==
    (Extracting("network") /\ Extraction.read # NoCounters
       /\ CounterReads("network") # {}) =>
        LET c1 == LastRead("network").read
            t1 == LastRead("network").at
            c2 == Extraction.read
            t2 == Extraction.at
        IN t2 > t1 =>
              /\ c2[1] >= c1[1] =>
                    FloatEq(Extraction.value.rx_speed, <<c2[1] - c1[1], (t2 - t1) * 1024>>)
              /\ c2[2] >= c1[2] =>
                    FloatEq(Extraction.value.tx_speed, <<c2[2] - c1[2], (t2 - t1) * 1024>>)

\* C12: the first extraction of a rate metric (global CPU, network rx/tx) of a
\* collector returns the neutral value and only records the baseline; the
\* second of two consecutive successful network extractions (c1,t1), (c2,t2)
\* with t2 > t1 and c2 >= c1 reports the rate (c2-c1)/(t2-t1) in KB/s.
C12_RateFromBaseline == [][C12_FirstIsNeutral /\ C12_RateOfTwoReads]_vars

\* C12 witness: a second network extraction has reported 1.5 KB/s received
\* (3072 bytes in 2 s) and 1 KB/s sent.
C12_Witness ==
    /\ Len(returned) >= 2
    /\ returned[Len(returned)].op = "network"
    /\ returned[Len(returned)].read = <<4096, 2048>>
    /\ FloatEq(returned[Len(returned)].value.rx_speed, <<3, 2>>)
    /\ FloatEq(returned[Len(returned)].value.tx_speed, <<1, 1>>)

\* An extraction that reads a counter below the one of the extraction before
\* it reports the neutral value for that counter's rate, and what it read
\* becomes the baseline.
C13_RegressionStep ==
    /\ (Extracting("network") /\ Extraction.read # NoCounters
          /\ CounterReads("network") # {}) =>
          LET c1 == LastRead("network").read
              c2 == Extraction.read
          IN /\ c2[1] < c1[1] => FloatEq(Extraction.value.rx_speed, Float(0))
             /\ c2[2] < c1[2] => FloatEq(Extraction.value.tx_speed, Float(0))
             /\ last_network_data'.timestamp = Extraction.at
    /\ (Extracting("cpu") /\ platform = "android" /\ Extraction.branch = "global"
          /\ Extraction.read # NoCounters /\ CounterReads("cpu") # {}) =>
          LET c1 == LastRead("cpu").read
              c2 == Extraction.read
          IN c2[1] < c1[1] =>
                /\ FloatEq(Extraction.value, Float(0))
                /\ last_cpu_data' = c2

\* C13: for every rate metric (global CPU, Android network, iOS network), an
\* extraction whose cumulative counter is below the one read before (c2 < c1)
\* reports the neutral value, never a negative rate, and the baseline becomes
\* (c2, t2).
C13_RegressionIsNeutral == [][C13_RegressionStep]_vars

\* A successful extraction of the global CPU counters replaces the baseline
\* with what it read, and when the total has grown since the extraction
\* before it, it returns 100 * (delta_total - delta_idle) / delta_total.
C14_GlobalCpuStep ==
    (Extracting("cpu") /\ platform = "android" /\ Extraction.branch = "global"
       /\ Extraction.read # NoCounters) =>
        /\ last_cpu_data' = Extraction.read
        /\ CounterReads("cpu") # {} =>
              LET delta_total == Extraction.read[1] - LastRead("cpu").read[1]
                  delta_idle == Extraction.read[2] - LastRead("cpu").read[2]
              IN delta_total > 0 =>
                    FloatEq(Extraction.value,
                            <<100 * (delta_total - delta_idle), delta_total>>)

\* The readings (100,10), (200,20), (400,40) give 0.0, 90.0, 90.0.
C14_Example ==
    (/\ platform = "android"
     /\ Len(returned) = 3
     /\ \A k \in 1..3 : returned[k].op = "cpu" /\ returned[k].branch = "global"
     /\ returned[1].read = <<100, 10>>
     /\ returned[2].read = <<200, 20>>
     /\ returned[3].read = <<400, 40>>) =>
        /\ FloatEq(returned[1].value, Float(0))
        /\ FloatEq(returned[2].value, Float(90))
        /\ FloatEq(returned[3].value, Float(90))

\* C14: global CPU usage over two consecutive extractions of the cumulative
\* tick counters with delta_total > 0 is 100 * (delta_total - delta_idle) /
\* delta_total, each successful extraction replaces the baseline with the
\* counters just read, and the readings (100,10), (200,20), (400,40) report
\* 0.0, 90.0, 90.0.
C14_GlobalCpuUsage == []C14_Example /\ [][C14_GlobalCpuStep]_vars

\* C14 witness: the three readings of the example have been extracted in turn.
C14_Witness ==
    /\ platform = "android"
    /\ Len(returned) = 3
    /\ \A k \in 1..3 : returned[k].op = "cpu" /\ returned[k].branch = "global"
    /\ returned[1].read = <<100, 10>>
    /\ returned[2].read = <<200, 20>>
    /\ returned[3].read = <<400, 40>>
    /\ last_cpu_data = <<400, 40>>

\* A CPU extraction of a collector bound to a package returns the percentage
\* the device reported for the process, or the neutral value when there was
\* none, and leaves last_cpu_data as it was.
C15_ProcessCpuStep ==
    (Extracting("cpu") /\ package_name # "") =>
        /\ last_cpu_data' = last_cpu_data
        /\ IF Extraction.branch = "process" /\ Extraction.read # NoPercentage
           THEN Extraction.value = Float(Extraction.read)
           ELSE FloatEq(Extraction.value, Float(0))

\* C15: for a collector bound to a package, every CPU extraction returns the
\* percentage reported by the device unmodified, or the neutral value on
\* failure, and never reads or writes the baseline last_cpu_data.
C15_ProcessCpuPassesThrough == [][C15_ProcessCpuStep]_vars

\* The sample the last call of collect_all returned.
Sample == returned[1]
Collected == returned # <<>> /\ Sample.op = "all"

\* C16: when one extractor fails in a tick, its field of the sample is
\* neutral and every other extractor the collector has was still called in
\* that tick.
C16_FailureStaysLocal ==
    (Collected /\ Cardinality(Sample.failed) = 1) =>
        /\ \A e \in Sample.failed \cap Plain : Sample.plain[e] = "neutral"
        /\ "cpu" \in Sample.failed => FloatEq(Sample.cpu_usage, Float(0))
        /\ "network" \in Sample.failed => Sample.network_usage = NeutralNetwork
        /\ Sample.called = Defines(platform)

\* The same on an Android collector alone.
C16_AndroidFailureStaysLocal == platform = "android" => C16_FailureStaysLocal


\* The call of a subscriber that raises leaves the loop in the same
\* iteration over the list, at the next index, with the flag as it was.
C17_RaiseIsCaught ==
    \A t \in Threads :
        (/\ thr[t].pc = "dispatch"
         /\ thr[t].idx <= Len(callbacks)
         /\ callbacks[thr[t].idx] \in Raising
         /\ <<thr'[t].pc, thr'[t].idx>> # <<thr[t].pc, thr[t].idx>>) =>
            /\ thr'[t].pc = "dispatch"
            /\ thr'[t].idx = thr[t].idx + 1
            /\ thr'[t].called = Append(thr[t].called, <<callbacks[thr[t].idx], thr[t].data>>)
            /\ is_collecting' = is_collecting

\* A dispatch never ends at the call of a raising subscriber, and a dispatch
\* in which a subscriber raised ends, in the sleep before the next tick, with
\* every subscriber of the list invoked with the tick's sample.
C17_RaiseStep ==
    /\ C17_RaiseIsCaught
    /\ \A t \in Threads :
         (thr[t].pc = "dispatch" /\ thr'[t].pc # "dispatch") =>
            /\ thr[t].idx > Len(callbacks)
            /\ thr'[t].pc = "sleeping"
            /\ (\E s \in Raising : Calls(t, s) # {}) =>
                  \A s \in Registered : Calls(t, s) # {}

\* C17: when a subscriber raises while handling a sample, every subscriber
\* registered after it still receives that sample in the same tick, and the
\* loop goes on to the next tick.
C17_RaisingSubscriberIsIsolated == [][C17_RaiseStep]_vars

\* The handling of the exception alone.
C17_ExceptionIsCaught == [][C17_RaiseIsCaught]_vars

\* A tick in which a subscriber has raised and a later one has been invoked.
C17_Witness ==
    \E t \in Threads :
        /\ thr[t].pc = "dispatch"
        /\ \E i, j \in 1..Len(thr[t].called) :
              /\ i < j
              /\ thr[t].called[i][1] \in Raising
              /\ thr[t].called[j][1] \notin Raising

\* The field of a sample that a metric of the thresholds is read from.
FieldOf(data, metric) ==
    CASE metric = "cpu" -> data.cpu_usage
      [] metric = "memory" -> data.memory_usage
      [] metric = "fps" -> data.fps
      [] metric = "battery_temp" -> data.temperature

\* In the step that delivers a tick's sample to the monitor, every metric of
\* the sample is evaluated, and each one beyond its threshold gets an
\* AlertEvent in the log.
C18_TickStep ==
    Len(performance_data') = Len(performance_data) + 1 =>
        LET data == performance_data'[Len(performance_data')]
        IN \A metric \in Metrics :
              /\ \E k \in (Len(evaluated) + 1)..Len(evaluated') :
                    evaluated'[k] = <<metric, FieldOf(data, metric)>>
              /\ is_alert(metric, FieldOf(data, metric)) =>
                    \E k \in (Len(alerts) + 1)..Len(alerts') :
                        /\ alerts'[k].metric = metric
                        /\ alerts'[k].value = FieldOf(data, metric)

\* C18: every sample produced by a scheduler tick is passed to the alert
\* evaluator in that tick, and a CPU, memory or battery temperature above its
\* threshold, or an FPS below its threshold, appends an AlertEvent to the log.
C18_TickSampleIsEvaluated == [][C18_TickStep]_vars

\* A step in which _check_alert evaluates one value, the evaluation it makes,
\* and whether the step appends to the log.
Evaluates == Len(evaluated') = Len(evaluated) + 1
Evaluation == evaluated'[Len(evaluated')]
Emits == Len(alerts') = Len(alerts) + 1

\* The previous evaluation of the metric, if any, was beyond the threshold.
StillBeyond(metric) ==
    LET before == EvaluationsOf(metric, evaluated)
    IN before # <<>> /\ is_alert(metric, before[Len(before)])

\* An evaluation emits exactly when its value is beyond the threshold and the
\* previous evaluation of the metric was not.
C19_CrossingStep ==
    Evaluates =>
        (Emits <=> /\ is_alert(Evaluation[1], Evaluation[2])
                   /\ ~StillBeyond(Evaluation[1]))

\* C19 as stated: an alert is triggered once per threshold crossing; while a
\* metric stays beyond its threshold only the first evaluation emits.
C19_OncePerCrossing == [][C19_CrossingStep]_vars

\* An evaluation beyond the threshold emits the event of its metric and
\* value, also when the previous evaluation of the metric was beyond it.
C19_RepeatStep ==
    (Evaluates /\ is_alert(Evaluation[1], Evaluation[2])) =>
        /\ Emits
        /\ alerts'[Len(alerts')].metric = Evaluation[1]
        /\ alerts'[Len(alerts')].value = Evaluation[2]
        /\ SubSeq(alerts', 1, Len(alerts)) = alerts

\* C19: an alert is triggered once per evaluation at which the metric is
\* beyond its threshold, not once per crossing: while a metric stays beyond
\* its threshold every evaluation emits an AlertEvent.
C19_OncePerViolatingEvaluation == [][C19_RepeatStep]_vars

\* The events of a metric in the log, and its evaluations beyond the threshold.
AlertsOf(metric) == {k \in 1..Len(alerts) : alerts[k].metric = metric}
ViolationsOf(metric) ==
    LET values == EvaluationsOf(metric, evaluated)
    IN {k \in 1..Len(values) : is_alert(metric, values[k])}

\* A metric evaluated beyond its threshold twice in a row, with two events.
C19_Witness ==
    \E metric \in Metrics :
        LET values == EvaluationsOf(metric, evaluated)
        IN /\ Len(values) >= 2
           /\ is_alert(metric, values[Len(values)])
           /\ is_alert(metric, values[Len(values) - 1])
           /\ Cardinality(AlertsOf(metric)) >= 2

\* The log holds one event per evaluation beyond the threshold, of the same
\* metrics and values in the same order, and nothing else.
C20_OneEventPerViolation ==
    LET beyond == SelectSeq(evaluated, LAMBDA e : is_alert(e[1], e[2]))
    IN /\ Len(alerts) = Len(beyond)
       /\ \A k \in 1..Len(alerts) :
             /\ alerts[k].metric = beyond[k][1]
             /\ alerts[k].value = beyond[k][2]
             /\ alerts[k].threshold = thresholds[beyond[k][1]]

\* An evaluation reads nothing but its value and the thresholds: what it
\* appends is the same whatever was evaluated or logged before.
C20_StatelessStep ==
    Evaluates =>
        alerts' = IF is_alert(Evaluation[1], Evaluation[2])
                  THEN Append(alerts, AlertEvent(Evaluation[1], Evaluation[2]))
                  ELSE alerts

\* C20: the evaluator keeps no state between calls and suppresses no repeat:
\* n consecutive evaluations of a metric beyond its threshold add exactly n
\* events to the log.
C20_NoSuppression == []C20_OneEventPerViolation /\ [][C20_StatelessStep]_vars

\* Every call of the session evaluated one metric beyond its threshold, and
\* the log holds as many events of it.
C20_Witness ==
    \E metric \in Metrics :
        /\ Len(EvaluationsOf(metric, evaluated)) = MaxMonitorCalls
        /\ Cardinality(ViolationsOf(metric)) = MaxMonitorCalls
        /\ Cardinality(AlertsOf(metric)) = MaxMonitorCalls

\* The direction in which a metric violates its threshold, and the violation.
Direction(metric) == IF metric = "fps" THEN "below" ELSE "above"
Violates(metric, value) ==
    IF Direction(metric) = "below"
    THEN value[1] * thresholds[metric][2] < thresholds[metric][1] * value[2]
    ELSE value[1] * thresholds[metric][2] > thresholds[metric][1] * value[2]

\* One evaluation appends one event of its metric, value, threshold and
\* direction when the value violates the threshold, and nothing otherwise.
C21_EvaluationStep ==
    Evaluates =>
        LET metric == Evaluation[1]
            value == Evaluation[2]
        IN IF Violates(metric, value)
           THEN /\ Len(alerts') = Len(alerts) + 1
                /\ SubSeq(alerts', 1, Len(alerts)) = alerts
                /\ alerts'[Len(alerts')].metric = metric
                /\ alerts'[Len(alerts')].value = value
                /\ alerts'[Len(alerts')].threshold = thresholds[metric]
                /\ alerts'[Len(alerts')].message[2] = Direction(metric)
           ELSE alerts' = alerts

\* C21: one evaluation appends exactly one AlertEvent when the value violates
\* its threshold and none otherwise; CPU, memory and battery temperature
\* violate above the threshold, FPS below it, a value equal to the threshold
\* never; the event carries metric, value, threshold and direction.
C21_OneEventPerViolation == [][C21_EvaluationStep]_vars

\* A value equal to its threshold was evaluated without an event, and the
\* log holds an event below for FPS and an event above for another metric.
C21_Witness ==
    /\ \E k \in 1..Len(evaluated) :
          /\ FloatEq(evaluated[k][2], thresholds[evaluated[k][1]])
          /\ AlertsOf(evaluated[k][1]) = {}
    /\ \E k \in 1..Len(alerts) :
          alerts[k].metric = "fps" /\ alerts[k].message[2] = "below"
    /\ \E k \in 1..Len(alerts) :
          alerts[k].metric # "fps" /\ alerts[k].message[2] = "above"

\* Every step leaves the events of the log where they are and as they are.
C22_LogStep ==
    /\ Len(alerts') >= Len(alerts)
    /\ \A k \in 1..Len(alerts) : alerts'[k] = alerts[k]

\* C22: the alert log of a session only grows by appending at its tail; every
\* event already in it keeps its position and all of its field values.
C22_LogIsAppendOnly == [][C22_LogStep]_vars

\* A log of two events of one metric, after an evaluation that added none.
C22_Witness ==
    /\ Len(alerts) >= 2
    /\ alerts[1].metric = alerts[2].metric
    /\ Len(evaluated) > Len(alerts)

\* No sample in the buffer is in assembly, and no read of the buffer has
\* returned one that was.
C23_BufferHoldsAssembledSamples ==
    /\ Range(data_buffer) \cap InAssembly = {}
    /\ (returned # <<>> /\ returned[1].op = "recent") => returned[1].assembling = {}

\* The steps of a tick that write a sample are those of its assembly, which
\* end before the sample is appended: an appended sample is not in assembly
\* in any later state either.
C23_AssemblyStep ==
    \A t \in Threads :
        thr'[t].pc = "assembling" =>
            /\ thr[t].pc \in {"collect", "assembling"}
            /\ \A k \in 1..Len(data_buffer') : data_buffer'[k] # thr'[t].data
            /\ appendCount'[thr'[t].data] = 0

\* C23: a read of the buffer made while a tick is in flight never observes a
\* sample that is still being assembled; every sample in the buffer has had
\* its extractors completed and the loop does not write it afterwards.
C23_NoPartialSampleVisible ==
    []C23_BufferHoldsAssembledSamples /\ [][C23_AssemblyStep]_vars

\* A read that returned a sample while the next one was in assembly.
C23_Witness ==
    /\ returned # <<>>
    /\ returned[1].op = "recent"
    /\ returned[1].value # <<>>
    /\ InAssembly # {}

\* No object is referred to by both collectors.
C24_NoSharedObject ==
    \A f, g \in Fields : pair.ref[1][f] # pair.ref[2][g]

\* A step leaves every collector other than the one it operates on as it was:
\* flag, buffer, subscriber list and baselines.
C24_OtherStep ==
    \A c \in Collectors :
        pair'.last # c => StateOf(pair', c) = StateOf(pair, c)

\* C24: two collectors created for distinct device/package pairs share no
\* mutable state: an operation on one leaves the other's buffer, subscriber
\* list, scheduler state and baselines unchanged, under every interleaving.
C24_CollectorsAreIndependent == []C24_NoSharedObject /\ [][C24_OtherStep]_vars

\* Both collectors are running with a sample of their own in their buffer,
\* and one has both baselines and a subscriber while the other has neither a
\* CPU baseline nor a subscriber.
C24_Witness ==
    /\ pair.is_collecting[1] /\ pair.is_collecting[2]
    /\ Deref(pair, 1, "data_buffer") # <<>>
    /\ Deref(pair, 2, "data_buffer") # <<>>
    /\ Deref(pair, 1, "collector").last_cpu_data # <<>>
    /\ Deref(pair, 1, "collector").last_network_data # <<>>
    /\ Deref(pair, 1, "callbacks") # <<>>
    /\ Deref(pair, 2, "collector").last_cpu_data = <<>>
    /\ Deref(pair, 2, "callbacks") = <<>>

\* The export that has returned, if any.
Exported == returned # <<>> /\ returned[1].op = "export" /\ returned[1].pc = "done"

\* No step of export_data changes the buffer.
C25_PureReadStep ==
    (returned' # returned /\ returned' # <<>> /\ returned'[1].op = "export") =>
        data_buffer' = data_buffer

\* An export that returned True has written, in buffer order and once each,
\* a record of every sample that was in the buffer throughout the call, and
\* of the whole buffer when the buffer did not change; one that returned
\* False has written nothing.
C25_ExportIsComplete ==
    Exported =>
        IF returned[1].result
        THEN /\ returned[1].format \in {"json", "csv"}
             /\ \A k \in returned[1].stayed :
                   \E i \in 1..Len(returned[1].written) :
                       returned[1].written[i] = to_dict(k)
             /\ \A i, j \in 1..Len(returned[1].written) :
                   i < j => returned[1].written[i].sample < returned[1].written[j].sample
        ELSE returned[1].written = <<>>

\* C25: export_data is a pure read of the buffer: whether it succeeds or
\* fails the buffer's contents and order are unchanged, an unsupported format
\* returns False, and on success it writes one record per buffered sample in
\* buffer order.
C25_ExportIsPureRead == []C25_ExportIsComplete /\ [][C25_PureReadStep]_vars

\* The frame effect alone.
C25_BufferUntouched == [][C25_PureReadStep]_vars

\* C26: a request to extract an unknown metric target is surfaced to the
\* caller as a rejected request, never as a default or empty value reported
\* as success.
C26_UnknownTargetIsRejected ==
    \A k \in 1..Len(returned) :
        (/\ returned[k].op = "collect"
         /\ returned[k].device_id \notin {"", "gone"}
         /\ returned[k].package # ""
         /\ returned[k].target \notin KnownTargets) =>
            /\ ~returned[k].response.success
            /\ returned[k].response.status # 200

\* s is the stats of values: all zero for no value, else the least and the
\* greatest value, the arithmetic mean and the length.
IsStatsOf(s, values) ==
    IF values = <<>>
    THEN s = [min |-> Float(0), max |-> Float(0), avg |-> Float(0), count |-> 0]
    ELSE /\ s.count = Len(values)
         /\ \E k \in 1..Len(values) : s.min = values[k]
         /\ \E k \in 1..Len(values) : s.max = values[k]
         /\ \A k \in 1..Len(values) : FloatLe(s.min, values[k]) /\ FloatLe(values[k], s.max)
         /\ FloatEq(<<s.avg[1] * Len(values), s.avg[2]>>, sum(values))
         /\ FloatLe(s.min, s.avg) /\ FloatLe(s.avg, s.max)

\* The series of a session: each column of the samples, whole and filtered.
SeriesOfSession ==
    UNION {{Column(f), Positive(Column(f))} : f \in {"cpu_usage", "memory_usage", "fps"}}

\* The two examples of the contract.
C27_Examples ==
    /\ IsStatsOf(APM_calculate_stats(<<>>), <<>>)
    /\ LET s == APM_calculate_stats(<<Float(10), Float(20), Float(30)>>)
       IN /\ FloatEq(s.min, Float(10))
          /\ FloatEq(s.max, Float(30))
          /\ FloatEq(s.avg, Float(20))
          /\ s.count = 3

\* C27: stats of an empty sequence is min 0, max 0, avg 0, count 0; of a
\* non-empty one it is the minimum, the maximum, the arithmetic mean and the
\* length, so min <= avg <= max; the aggregator of the live summary and the
\* one of the report return the same result for the same input.
C27_StatsAreMinMaxMeanCount ==
    /\ C27_Examples
    /\ \A values \in SeriesOfSession :
          /\ IsStatsOf(APM_calculate_stats(values), values)
          /\ ReportGenerator_calculate_stats(values) = APM_calculate_stats(values)

\* A summary whose CPU series has distinct values and whose FPS series is
\* empty.
C27_Witness ==
    /\ returned # <<>>
    /\ returned[1].op = "summary"
    /\ ~returned[1].empty
    /\ returned[1].stats.cpu.count >= 2
    /\ FloatLt(returned[1].stats.cpu.min, returned[1].stats.cpu.avg)
    /\ FloatLt(returned[1].stats.cpu.avg, returned[1].stats.cpu.max)
    /\ returned[1].stats.fps.count = 0

\* The values of a field in the samples a summary or report was taken over
\* that are not 0, in sample order.
NonZeroAt(field) ==
    SelectSeq([k \in 1..returned[1].data_points |-> performance_data[k][field]],
              LAMBDA v : ~FloatEq(v, Float(0)))

\* C28: the CPU, memory and FPS statistics of a summary or report are taken
\* over exactly the samples whose value is not the sentinel 0: the count is
\* the number of samples with a non-zero value, and a series of zeros gives
\* the all-zero stats with count 0.
C28_StatsSkipSentinel ==
    (returned # <<>> /\ returned[1].op \in {"summary", "report"} /\ ~returned[1].empty) =>
        /\ IsStatsOf(returned[1].stats.cpu, NonZeroAt("cpu_usage"))
        /\ IsStatsOf(returned[1].stats.memory, NonZeroAt("memory_usage"))
        /\ IsStatsOf(returned[1].stats.fps, NonZeroAt("fps"))

\* A report over samples of which some, not all, have a CPU value of 0, and
\* all have a memory value of 0.
C28_Witness ==
    /\ returned # <<>>
    /\ returned[1].op = "report"
    /\ ~returned[1].empty
    /\ returned[1].stats.cpu.count >= 1
    /\ returned[1].stats.cpu.count < returned[1].data_points
    /\ returned[1].stats.memory.count = 0

\* The frame rates the FPS extractor of a platform has returned.
FpsOf(p) ==
    SelectSeq(returned, LAMBDA r : r.op = "fps" /\ r.platform = p)

\* A frame rate within 0 and the ceiling 60.
WithinCeiling(v) == FloatLe(Float(0), v) /\ FloatLe(v, Float(60))

\* C29: the fps of every sample lies between 0 and the ceiling 60 inclusive,
\* on the Android and on the iOS variant of the FPS extractor and for every
\* device output.
C29_FpsWithinCeiling ==
    \A p \in Platforms : \A k \in 1..Len(FpsOf(p)) : WithinCeiling(FpsOf(p)[k].value)

\* The part of C29 about the Android extractor, which clamps.
C29_AndroidFpsWithinCeiling ==
    \A k \in 1..Len(FpsOf("android")) : WithinCeiling(FpsOf("android")[k].value)

\* The Android extractor has clamped a mean frame time under 1000/60 ms.
C29_AndroidWitness ==
    \E k \in 1..Len(FpsOf("android")) :
        /\ FpsOf("android")[k].read = <<8, 16>>
        /\ FloatEq(FpsOf("android")[k].value, Float(60))

\* The timestamp of the sample with id k.
TimestampOf(k) == returned[k].timestamp

\* C30: with a non-decreasing clock, the samples in the buffer are ordered by
\* non-decreasing timestamp in every reachable state, after any sequence of
\* ticks, starts, stops and restarts; each sample's timestamp is the single
\* time taken when its assembly began.
C30_BufferOrderedByTimestamp ==
    \A i, j \in 1..Len(data_buffer) :
        i < j => TimestampOf(data_buffer[i]) <= TimestampOf(data_buffer[j])

\* The stamp of a sample is taken once, when its assembly begins, and the
\* clock never goes back.
C30_StampStep ==
    /\ clock' >= clock
    /\ \A k \in 1..Len(returned) : returned'[k] = returned[k]
    /\ Len(returned') > Len(returned) =>
          /\ Len(returned') = nextId'
          /\ returned'[nextId'].timestamp = clock
C30_StampedOnceAtAssembly == [][C30_StampStep]_vars

\* Under the sequential control plane the buffer is in assembly order.
C30_BufferInAssemblyOrder ==
    \A i, j \in 1..Len(data_buffer) : i < j => data_buffer[i] < data_buffer[j]

\* Two samples stamped at different times are in a buffer of capacity 2.
C30_Witness ==
    /\ max_buffer_size = 2
    /\ Len(data_buffer) = 2
    /\ TimestampOf(data_buffer[1]) < TimestampOf(data_buffer[2])

\* The step of a get_recent_data call: the list returned is the last
\* min(count, length) samples of the buffer, and the buffer is left alone.
C31_RecentStep ==
    returned' # returned =>
        /\ returned'[1].op = "recent"
        /\ returned'[1].value =
              LastN(data_buffer, Min(returned'[1].count, Len(data_buffer)))
        /\ data_buffer' = data_buffer

\* C31: get_recent_data(count) returns the most recent min(count, length)
\* samples of the buffer, in buffer order, for every count >= 0 (an empty list
\* for count = 0), and leaves the buffer unchanged.
C31_RecentDataIsLastCount == [][C31_RecentStep]_vars

\* The same for the counts that are not 0.
C31_PositiveCountStep ==
    (returned' # returned /\ returned'[1].count # 0) => C31_RecentStep
C31_RecentDataOfPositiveCount == [][C31_PositiveCountStep]_vars

\* A call with a positive count below the length of the buffer has returned.
C31_PositiveWitness ==
    /\ returned # <<>>
    /\ returned[1].count = 1
    /\ Len(returned[1].value) = 1
    /\ Len(data_buffer) = 2

\* An extraction of a rate metric that has failed: a command raised or the
\* pattern looked for was absent from its output.
FailedExtraction(r) ==
    \/ r.op = "network" /\ r.kind \in {"raises", "no_uid", "no_rows"}
    \/ r.op = "cpu" /\ r.branch = "global" /\ r.read = NoCounters

\* The network extractions that have read counters, as indexes of returned.
Successful == {k \in 1..Len(returned) : returned[k].op = "network" /\ returned[k].kind = "counters"}

\* A failed extraction leaves both baselines as they were.
C32_FailureStep ==
    (Len(returned') > Len(returned) /\ FailedExtraction(returned'[Len(returned')])) =>
        /\ last_network_data' = last_network_data
        /\ last_cpu_data' = last_cpu_data

\* A successful network extraction reports the rate over the whole interval
\* since the last successful one.
C32_RateSinceLastSuccess ==
    \A k \in Successful :
        LET before == {j \in Successful : j < k}
        IN before # {} =>
              LET j == CHOOSE i \in before : \A h \in before : h <= i
                  time_diff == returned[k].at - returned[j].at
              IN time_diff > 0 =>
                    FloatEq(returned[k].value.rx_speed,
                            FloatDiv(Float(returned[k].read[1] - returned[j].read[1]),
                                     time_diff * 1024))

\* C32: an extraction of a rate metric that fails (transport failure, or the
\* expected pattern is absent from the output) leaves the metric's baseline
\* unchanged, so the next successful extraction reports the rate over the
\* whole interval since the last successful one.
C32_FailureKeepsBaseline ==
    /\ [][C32_FailureStep]_vars
    /\ []C32_RateSinceLastSuccess

\* The same for the failures that read nothing: a command that raises, a
\* status without Uid line, a /proc/stat without cpu line.
C32_NothingReadStep ==
    (Len(returned') > Len(returned)
       /\ FailedExtraction(returned'[Len(returned')])
       /\ (returned'[Len(returned')].op = "network" =>
              returned'[Len(returned')].kind # "no_rows")) =>
        /\ last_network_data' = last_network_data
        /\ last_cpu_data' = last_cpu_data
C32_NothingReadKeepsBaseline == [][C32_NothingReadStep]_vars

\* A command has raised between two successful network extractions.
C32_NothingReadWitness ==
    /\ Len(returned) = 3
    /\ returned[1].op = "network" /\ returned[1].kind = "counters"
    /\ returned[2].op = "network" /\ returned[2].kind = "raises"
    /\ returned[3].op = "network" /\ returned[3].kind = "counters"
    /\ returned[3].at > returned[1].at
    /\ ~FloatEq(returned[3].value.rx_speed, Float(0))

\* How many times x is in a sequence.
Occurrences(seq, x) == Cardinality({k \in 1..Len(seq) : seq[k] = x})

\* The samples whose tick is over: assembled, and in the hands of no loop.
Dispatched == {k \in 1..nextId : \A t \in Threads : thr[t].data # k}

\* C33: each sample assembled by the monitor's collector is appended to the
\* monitor's performance_data exactly once, also when collect_all is invoked
\* more than once on the same monitor: the monitor's subscriber is never
\* registered twice on the collector.
C33_SampleRecordedOnce ==
    /\ Occurrences(callbacks, OnDataCollected) <= 1
    /\ \A k \in 1..nextId : Occurrences(performance_data, k) <= 1
    /\ \A k \in Dispatched : Occurrences(performance_data, k) = 1

\* The same while collect_all has been invoked once only.
C33_RecordedOnceInFirstRun ==
    Len(callbacks) <= 1 =>
        /\ \A k \in 1..nextId : Occurrences(performance_data, k) <= 1
        /\ \A k \in Dispatched : Occurrences(performance_data, k) = 1

\* The first run of a monitor has recorded two samples.
C33_FirstRunWitness ==
    /\ Len(callbacks) = 1
    /\ Len(performance_data) = 2
    /\ Dispatched = {1, 2}

\* A loop of a monitor of duration 0 leaves its `while` only when the flag
\* is clear, and the flag goes from set to clear only in a step of
\* stop_monitoring.
C34_UnboundedStep ==
    apm.duration = 0 =>
        /\ \A t \in Threads :
              (thr[t].pc # "exit" /\ thr'[t].pc = "exit") => ~is_collecting
        /\ (is_collecting /\ ~is_collecting') =>
              (apm.is_monitoring /\ ~apm'.is_monitoring)

\* C34: a monitor duration of 0 means unbounded: a run started with duration
\* 0 never becomes Idle through duration expiry and ends only through stop().
C34_ZeroDurationIsUnbounded == [][C34_UnboundedStep]_vars

\* The part on expiry: the loop of a duration-0 monitor never leaves its
\* `while` with the flag set.
C34_NoExpiryStep ==
    apm.duration = 0 =>
        \A t \in Threads :
            (thr[t].pc # "exit" /\ thr'[t].pc = "exit") => ~is_collecting
C34_ZeroDurationNeverExpires == [][C34_NoExpiryStep]_vars

\* A run of duration 0 has assembled every sample of the session and is
\* still running; another has ended after a stop.
C34_Witness ==
    /\ apm.duration = 0
    /\ \/ nextId = MaxSamples /\ is_collecting /\ apm.pc = "wait"
       \/ \E t \in Threads : thr[t].pc = "done" /\ ~is_collecting /\ ~apm.is_monitoring

\* No tick is under way: no loop holds a sample.
TicksCompleted == \A t \in Threads : thr[t].data = 0

\* C39: for a monitor whose subscriber is registered before the first tick and
\* on which clear_buffer is never called, after each completed tick the
\* collector's buffer is the last min(n, capacity) entries of performance_data
\* (n ticks so far), and performance_data keeps all n samples.
C39_BufferIsTailOfRecord ==
    TicksCompleted =>
        /\ performance_data = Assembled
        /\ data_buffer = LastN(performance_data, Min(nextId, max_buffer_size))

\* The same while collect_all has been invoked once only.
C39_BufferIsTailInFirstRun == Len(callbacks) <= 1 => C39_BufferIsTailOfRecord

\* The first run has recorded more samples than the buffer holds.
C39_FirstRunWitness ==
    /\ Len(callbacks) = 1
    /\ TicksCompleted
    /\ Len(performance_data) = MaxSamples
    /\ Len(data_buffer) = max_buffer_size


\* ---------------------------------------------------------------- C35
\* Caller c enters a call of the registry in this step.
Invokes(c, op) ==
    /\ monitors.call[c].pc = "idle"
    /\ monitors'.call[c].n = monitors.calls + 1
    /\ monitors'.call[c].op = op

\* start_monitor with a registered id returns False at once and changes
\* neither the registry nor the monitor stored under the id.
C35_DuplicateStartStep ==
    \A c \in Callers :
        (Invokes(c, "start_monitor") /\ monitors'.call[c].id \in DOMAIN monitors.registered) =>
            /\ monitors'.call[c].pc = "idle"
            /\ monitors'.call[c].result = FALSE
            /\ monitors'.registered = monitors.registered
            /\ monitors'.created = monitors.created

\* stop_monitor with an id that is not registered returns False at once and
\* leaves the registry unchanged.
C35_UnknownStopStep ==
    \A c \in Callers :
        (Invokes(c, "stop_monitor") /\ monitors'.call[c].id \notin DOMAIN monitors.registered) =>
            /\ monitors'.call[c].pc = "idle"
            /\ monitors'.call[c].result = FALSE
            /\ monitors'.registered = monitors.registered

\* A stop_monitor that returns True has removed the id, and only the id.
C35_SuccessfulStopStep ==
    \A c \in Callers :
        (/\ monitors.call[c].pc = "del"
         /\ monitors'.call[c].pc = "idle"
         /\ monitors'.call[c].result = TRUE) =>
            /\ monitors'.call[c].id \notin DOMAIN monitors'.registered
            /\ \A x \in DOMAIN monitors.registered \ {monitors.call[c].id} :
                  /\ x \in DOMAIN monitors'.registered
                  /\ monitors'.registered[x] = monitors.registered[x]

\* start_monitor with an id that is not registered, a released id included,
\* is not rejected: it goes on to construct the monitor, and once it is
\* constructed the call registers it under the id and returns True.
C35_StartAgainStep ==
    \A c \in Callers :
        /\ (Invokes(c, "start_monitor") /\ monitors'.call[c].id \notin DOMAIN monitors.registered) =>
                monitors'.call[c].pc = "construct"
        /\ (monitors.call[c].pc = "insert" /\ monitors'.call[c] # monitors.call[c]) =>
                /\ monitors'.call[c].pc = "idle"
                /\ monitors'.call[c].result = TRUE
                /\ monitors.call[c].id \in DOMAIN monitors'.registered
                /\ monitors'.registered[monitors.call[c].id] = monitors.call[c].obj

\* C35: in the monitor registry, start_monitor with an id that is already
\* registered returns False and leaves the registry and the existing
\* monitor unchanged; stop_monitor with an id that is not registered returns
\* False and leaves the registry unchanged; after a successful stop_monitor
\* the id is no longer listed and can be started again.
C35_RegistryRejectsAndReleases ==
    [][/\ C35_DuplicateStartStep
       /\ C35_UnknownStopStep
       /\ C35_SuccessfulStopStep
       /\ C35_StartAgainStep]_vars

\* An id that was stopped successfully is registered again by a later
\* start_monitor that returned True, while the other caller's start_monitor
\* with the id, now a duplicate, has returned False.
C35_Witness ==
    \E c, d \in Callers :
        /\ c # d
        /\ "m1" \in DOMAIN monitors.registered
        /\ monitors.call[c] =
              [op |-> "start_monitor", id |-> "m1", pc |-> "idle",
               obj |-> monitors.registered["m1"], result |-> TRUE,
               n |-> monitors.call[c].n, reuse |-> TRUE]
        /\ monitors.call[d].op = "start_monitor"
        /\ monitors.call[d].id = "m1"
        /\ monitors.call[d].pc = "idle"
        /\ monitors.call[d].result = FALSE
        /\ monitors.call[d].n > monitors.call[c].n
        /\ monitors.created = 2


\* ---------------------------------------------------------------- C36
\* The exit-signal handler has run.
Signalled == apm.pc = "exited"

\* No sampling loop is running.
AllLoopsIdle == ~is_collecting /\ \A t \in Threads : ~Alive(t)

\* C36: when the exit-signal handler (SIGINT/SIGTERM) runs, all monitoring
\* is stopped: every sampling loop that was started in the process, in web
\* mode or in command-line monitor mode, eventually becomes Idle.
C36_SignalStopsEveryLoop == Signalled ~> AllLoopsIdle

\* The same for the processes in which it holds: the web mode, where no
\* registered monitor has a loop, and a command-line monitor with a
\* duration, whose loop ends by itself when the duration has passed.
C36_SignalStopsTimedLoop ==
    (Signalled /\ (apm.duration > 0 \/ Born = {})) ~> AllLoopsIdle

\* The handler has run while the loop of a command-line monitor with a
\* duration was running, and the loop has ended.
C36_TimedWitness ==
    /\ Signalled
    /\ apm.duration > 0
    /\ apm.is_monitoring
    /\ \E t \in Threads : thr[t].pc = "done"
    /\ nextId > 0
    /\ AllLoopsIdle


\* ---------------------------------------------------------------- C37
\* The subscribers the loop of Thread t has called with the sample of its
\* tick, and those removed by the handlers it has called.
CalledInDispatch(t) == {thr[t].called[k][1] : k \in 1..Len(thr[t].called)}
RemovedInDispatch(t) == {thr[t].called[k][3] : k \in 1..Len(thr[t].called)} \ {NoTarget}

\* The dispatch of a tick ends: every subscriber still registered, which is
\* every subscriber registered at its start and not removed by a handler,
\* has been called with the tick's sample.
C37_DispatchEndStep ==
    \A t \in Threads :
        (thr[t].pc = "dispatch" /\ thr'[t].pc = "sleeping") =>
            \A s \in Registered \ RemovedInDispatch(t) : s \in CalledInDispatch(t)

\* C37: a subscriber that calls remove_callback (on itself or on another
\* subscriber) while a sample is being dispatched does not prevent any other
\* subscriber that was registered at the start of that dispatch, and was not
\* the one removed, from receiving that sample.
C37_RemovalSkipsNobody == [][C37_DispatchEndStep]_vars

\* The same for the handlers that remove nothing or a subscriber not yet
\* called in this dispatch, which is behind them in the list.
C37_RemovalBehindStep ==
    \A t \in Threads :
        (/\ thr[t].pc = "dispatch"
         /\ thr'[t].pc = "sleeping"
         /\ \A k \in 1..Len(thr[t].called) :
               \/ thr[t].called[k][3] = NoTarget
               \/ \A j \in 1..k : thr[t].called[j][1] # thr[t].called[k][3]) =>
            \A s \in Registered : s \in CalledInDispatch(t)

C37_RemovalBehindSkipsNobody == [][C37_RemovalBehindStep]_vars

\* A dispatch in which the first subscriber has removed the second has ended
\* with the first called and the second not.
C37_BehindWitness ==
    \E t \in Threads :
        /\ thr[t].pc = "dispatch"
        /\ thr[t].idx > Len(callbacks)
        /\ thr[t].called = <<(<<"s1", thr[t].data, "s2">>)>>
        /\ callbacks = <<"s1">>


\* ---------------------------------------------------------------- C38
\* The eviction step of a tick (`self.data_buffer.pop(0)`) acts on a buffer
\* that is not empty, and the tick goes on to dispatch its sample.
C38_EvictionStep ==
    \A t \in Threads :
        (thr[t].pc = "pop" /\ thr'[t].pc # "pop") =>
            /\ data_buffer # <<>>
            /\ thr'[t].pc = "dispatch"
            /\ thr'[t].data = thr[t].data

\* C38: clear_buffer called from a caller thread concurrently with a running
\* tick loop never makes a tick fail: under every interleaving, the sample
\* assembled by that tick is still delivered to every subscriber, and the
\* eviction step never acts on an empty buffer.
C38_ClearNeverFailsTick == [][C38_EvictionStep]_vars

\* A clear_buffer at any other point of the tick: the buffer is emptied and
\* the position of every loop and the sample it holds are untouched.
C38_ClearStep ==
    (data_buffer # <<>> /\ data_buffer' = <<>>
       /\ \A t \in Threads : thr[t].pc # "pop") =>
        /\ thr' = thr
        /\ callbacks' = callbacks
        /\ is_collecting' = is_collecting

C38_ClearOutsideEvictionIsHarmless == [][C38_ClearStep]_vars

====
